---- MODULE Spec2Model ----
(***************************************************************************)
(* State-machine model of the HVAC CSC (python/lsst/ts/hvac/csc.py): the   *)
(* per-item accumulators of InternalItemState, the ingestion pass          *)
(* _handle_mqtt_messages, the publisher _send_telemetry / send_events, the *)
(* periodic task _publish_telemetry_regularly, and the command handlers.   *)
(***************************************************************************)
EXTENDS Integers, Sequences, FiniteSets, TLC

(***************************************************************************)
(* Bounds of the model.                                                    *)
(***************************************************************************)
\* Largest number of messages waiting in mqtt_client.msgs.
MaxQueue == 2
\* Largest number of messages the broker delivers in one session.
MaxArrivals == 2
\* Longest accumulator explored by the stand-alone accumulator specification.
MaxLen == 3
\* Largest number of messages the broker delivers in one session of the
\* Dynalene tank-level specification: the three messages of one report.
MaxReport == 3
\* Largest number of publish_mqtt_message calls of one client.
MaxPublish == 2
\* Longest timeout of a publish_mqtt_message call, in clock ticks.
MaxTimeout == 2

(***************************************************************************)
(* Python values.  A value is a pair <<type, n>>.  bool and number compare *)
(* by n, as in Python (True == 1); truthiness is n # 0.                    *)
(***************************************************************************)
None == <<"none", 0>>
PyTrue == <<"bool", 1>>
PyFalse == <<"bool", 0>>
Num(n) == <<"num", n>>
Str(n) == <<"str", n>>

\* bool(v) as used by `if enabled:`.
Truthy(v) == v[2] # 0

\* v1 == v2 between scalars, as the dict comparison of send_events does.
PyEq(a, b) ==
    IF a[1] = "none" \/ b[1] = "none" \/ a[1] = "str" \/ b[1] = "str"
    THEN a = b
    ELSE a[2] = b[2]

Last(s) == s[Len(s)]

(***************************************************************************)
(* The catalog: devices, their wire topics and their items.                *)
(***************************************************************************)
CHILLER_01 == <<"LSST", "PISO01", "CHILLER_01">>
CHILLER_02 == <<"LSST", "PISO01", "CHILLER_02">>
DYNALENE == <<"LSST", "PISO05", "DYNALENE">>
MANEJADORA_LOWER_01 == <<"LSST", "PISO05", "MANEJADORA", "LOWER_01">>
VEA_01 == <<"LSST", "PISO01", "VEA_01">>

\* The keys of hvac_state in the order the device loop visits them.
DeviceOrder == <<CHILLER_01, CHILLER_02, DYNALENE, MANEJADORA_LOWER_01, VEA_01>>
Devices == {DeviceOrder[i] : i \in 1..Len(DeviceOrder)}

\* The devices that are always enabled.
TOPICS_ALWAYS_ENABLED ==
    {<<"LSST", "PISO01", "BOMBA_AGUA_FRIA">>,
     <<"LSST", "PISO01", "GENERAL">>,
     <<"LSST", "PISO01", "VALVULA">>,
     DYNALENE}

\* The devices without configuration items.
TOPICS_WITHOUT_CONFIGURATION == {DYNALENE, VEA_01}

\* The devices that report a working state instead of echoing the switch.
TOPICS_WITHOUT_COMANDO_ENCENDIDO == {MANEJADORA_LOWER_01}

\* Position of the device in the DeviceId enumeration.
device_id_index(topic) ==
    CASE topic = CHILLER_01 -> 1
      [] topic = CHILLER_02 -> 2
      [] topic = DYNALENE -> 6
      [] topic = MANEJADORA_LOWER_01 -> 20
      [] topic = VEA_01 -> 27

\* The values of the HvacTopic enumeration.
HvacTopic ==
    {<<"LSST", "PISO01", "BOMBA_AGUA_FRIA">>,
     CHILLER_01,
     CHILLER_02,
     <<"LSST", "PISO01", "CHILLER_03">>,
     <<"LSST", "PISO02", "CRACK01">>,
     <<"LSST", "PISO02", "CRACK02">>,
     DYNALENE,
     <<"LSST", "PISO02", "FANCOIL01">>,
     <<"LSST", "PISO02", "FANCOIL02">>,
     <<"LSST", "PISO02", "FANCOIL03">>,
     <<"LSST", "PISO02", "FANCOIL04">>,
     <<"LSST", "PISO02", "FANCOIL05">>,
     <<"LSST", "PISO02", "FANCOIL06">>,
     <<"LSST", "PISO02", "FANCOIL07">>,
     <<"LSST", "PISO02", "FANCOIL08">>,
     <<"LSST", "PISO02", "FANCOIL09">>,
     <<"LSST", "PISO02", "FANCOIL10">>,
     <<"LSST", "PISO02", "FANCOIL11">>,
     <<"LSST", "PISO02", "FANCOIL12">>,
     <<"LSST", "PISO01", "GENERAL">>,
     MANEJADORA_LOWER_01,
     <<"LSST", "PISO05", "MANEJADORA", "LOWER_02">>,
     <<"LSST", "PISO05", "MANEJADORA", "LOWER_03">>,
     <<"LSST", "PISO05", "MANEJADORA", "LOWER_04">>,
     <<"LSST", "PISO04", "MANEJADORA", "GENERAL", "SBLANCA">>,
     <<"LSST", "PISO04", "MANEJADORA", "GENERAL", "SLIMPIA">>,
     <<"LSST", "PISO01", "VALVULA">>,
     VEA_01,
     <<"LSST", "PISO05", "VEA_01">>,
     <<"LSST", "PISO05", "VEA_08">>,
     <<"LSST", "PISO05", "VEA_09">>,
     <<"LSST", "PISO05", "VEA_10">>,
     <<"LSST", "PISO05", "VEA_11">>,
     <<"LSST", "PISO05", "VEA_12">>,
     <<"LSST", "PISO05", "VEA_13">>,
     <<"LSST", "PISO05", "VEA_14">>,
     <<"LSST", "PISO05", "VEA_15">>,
     <<"LSST", "PISO05", "VEA_16">>,
     <<"LSST", "PISO05", "VEA_17">>,
     <<"LSST", "PISO01", "VEC_01">>,
     <<"LSST", "PISO01", "VIN_01">>,
     <<"LSST", "PISO04", "VEX_03", "DAMPER_LOWER", "GENERAL">>,
     <<"LSST", "PISO04", "VEX_04", "ZONA_CARGA", "GENERAL">>}

\* The keys of DEVICE_GROUPS in the order of the dictionary.
DEVICE_GROUPS_keys ==
    <<"CHILLER", "CRACK", "DYNALENE", "FANCOIL", "MANEJADORA_LOWER", "MANEJADORA", "VEA", "SALA_MAQUINAS", "VEX">>

\* A dictionary that lists one device in two families.
DEVICE_GROUPS_overlap ==
    "CHILLER" :>
        <<CHILLER_01,
          CHILLER_02,
          <<"LSST", "PISO01", "CHILLER_03">>>> @@
    "CRACK" :>
        <<<<"LSST", "PISO02", "CRACK01">>,
          <<"LSST", "PISO02", "CRACK02">>>> @@
    "DYNALENE" :>
        <<DYNALENE>> @@
    "FANCOIL" :>
        <<<<"LSST", "PISO02", "FANCOIL01">>,
          <<"LSST", "PISO02", "FANCOIL02">>,
          <<"LSST", "PISO02", "FANCOIL03">>,
          <<"LSST", "PISO02", "FANCOIL04">>,
          <<"LSST", "PISO02", "FANCOIL05">>,
          <<"LSST", "PISO02", "FANCOIL06">>,
          <<"LSST", "PISO02", "FANCOIL07">>,
          <<"LSST", "PISO02", "FANCOIL08">>,
          <<"LSST", "PISO02", "FANCOIL09">>,
          <<"LSST", "PISO02", "FANCOIL10">>,
          <<"LSST", "PISO02", "FANCOIL11">>,
          <<"LSST", "PISO02", "FANCOIL12">>>> @@
    "MANEJADORA_LOWER" :>
        <<MANEJADORA_LOWER_01,
          <<"LSST", "PISO05", "MANEJADORA", "LOWER_02">>,
          <<"LSST", "PISO05", "MANEJADORA", "LOWER_03">>,
          <<"LSST", "PISO05", "MANEJADORA", "LOWER_04">>>> @@
    "MANEJADORA" :>
        <<<<"LSST", "PISO04", "MANEJADORA", "GENERAL", "SBLANCA">>,
          <<"LSST", "PISO04", "MANEJADORA", "GENERAL", "SLIMPIA">>>> @@
    "VEA" :>
        <<<<"LSST", "PISO05", "VEA_01">>,
          <<"LSST", "PISO05", "VEA_08">>,
          <<"LSST", "PISO05", "VEA_09">>,
          <<"LSST", "PISO05", "VEA_10">>,
          <<"LSST", "PISO05", "VEA_11">>,
          <<"LSST", "PISO05", "VEA_12">>,
          <<"LSST", "PISO05", "VEA_13">>,
          <<"LSST", "PISO05", "VEA_14">>,
          <<"LSST", "PISO05", "VEA_15">>,
          <<"LSST", "PISO05", "VEA_16">>,
          <<"LSST", "PISO05", "VEA_17">>,
          CHILLER_02>> @@
    "SALA_MAQUINAS" :>
        <<VEA_01,
          <<"LSST", "PISO01", "VIN_01">>,
          <<"LSST", "PISO01", "VEC_01">>>> @@
    "VEX" :>
        <<<<"LSST", "PISO04", "VEX_03", "DAMPER_LOWER", "GENERAL">>,
          <<"LSST", "PISO04", "VEX_04", "ZONA_CARGA", "GENERAL">>>>

\* DEVICE_GROUPS: the family name and the list of its device topics.
DEVICE_GROUPS ==
    "CHILLER" :>
        <<CHILLER_01,
          CHILLER_02,
          <<"LSST", "PISO01", "CHILLER_03">>>> @@
    "CRACK" :>
        <<<<"LSST", "PISO02", "CRACK01">>,
          <<"LSST", "PISO02", "CRACK02">>>> @@
    "DYNALENE" :>
        <<DYNALENE>> @@
    "FANCOIL" :>
        <<<<"LSST", "PISO02", "FANCOIL01">>,
          <<"LSST", "PISO02", "FANCOIL02">>,
          <<"LSST", "PISO02", "FANCOIL03">>,
          <<"LSST", "PISO02", "FANCOIL04">>,
          <<"LSST", "PISO02", "FANCOIL05">>,
          <<"LSST", "PISO02", "FANCOIL06">>,
          <<"LSST", "PISO02", "FANCOIL07">>,
          <<"LSST", "PISO02", "FANCOIL08">>,
          <<"LSST", "PISO02", "FANCOIL09">>,
          <<"LSST", "PISO02", "FANCOIL10">>,
          <<"LSST", "PISO02", "FANCOIL11">>,
          <<"LSST", "PISO02", "FANCOIL12">>>> @@
    "MANEJADORA_LOWER" :>
        <<MANEJADORA_LOWER_01,
          <<"LSST", "PISO05", "MANEJADORA", "LOWER_02">>,
          <<"LSST", "PISO05", "MANEJADORA", "LOWER_03">>,
          <<"LSST", "PISO05", "MANEJADORA", "LOWER_04">>>> @@
    "MANEJADORA" :>
        <<<<"LSST", "PISO04", "MANEJADORA", "GENERAL", "SBLANCA">>,
          <<"LSST", "PISO04", "MANEJADORA", "GENERAL", "SLIMPIA">>>> @@
    "VEA" :>
        <<<<"LSST", "PISO05", "VEA_01">>,
          <<"LSST", "PISO05", "VEA_08">>,
          <<"LSST", "PISO05", "VEA_09">>,
          <<"LSST", "PISO05", "VEA_10">>,
          <<"LSST", "PISO05", "VEA_11">>,
          <<"LSST", "PISO05", "VEA_12">>,
          <<"LSST", "PISO05", "VEA_13">>,
          <<"LSST", "PISO05", "VEA_14">>,
          <<"LSST", "PISO05", "VEA_15">>,
          <<"LSST", "PISO05", "VEA_16">>,
          <<"LSST", "PISO05", "VEA_17">>>> @@
    "SALA_MAQUINAS" :>
        <<VEA_01,
          <<"LSST", "PISO01", "VIN_01">>,
          <<"LSST", "PISO01", "VEC_01">>>> @@
    "VEX" :>
        <<<<"LSST", "PISO04", "VEX_03", "DAMPER_LOWER", "GENERAL">>,
          <<"LSST", "PISO04", "VEX_04", "ZONA_CARGA", "GENERAL">>>>

\* [k for k, v in DEVICE_GROUPS.items() if hvac_topic_value in v]
command_groups(topic) ==
    SelectSeq(DEVICE_GROUPS_keys,
              LAMBDA k : \E i \in 1..Len(DEVICE_GROUPS[k]) : DEVICE_GROUPS[k][i] = topic)

\* The first family found; an empty list has no first element.
command_group(topic) == command_groups(topic)[1]

\* The telemetry items of a device (wire names), as _setup_hvac_state
\* receives them from get_telemetry_mqtt_topics_and_items.
TelemetryItems(topic) ==
    CASE topic \in {CHILLER_01, CHILLER_02} ->
             {"COMANDO_ENCENDIDO", "SETPOINT_ACTIVO", "PRESION_BAJA_CTO1"}
      [] topic = DYNALENE ->
             {"DynTAalarmMonitor", "DynTankLevel", "DynTMAsupTS01", "DCH01supPS11"}
      [] topic = MANEJADORA_LOWER_01 -> {"ESTADO_FUNCIONAMIENTO", "SETPOINT_TRABAJO"}
      [] topic = VEA_01 -> {"COMANDO_ENCENDIDO"}

\* TelemetryItemEnglish(item).name: the canonical field of a wire item.
TelemetryItemEnglish(item) ==
    CASE item = "COMANDO_ENCENDIDO" -> "switchedOn"
      [] item = "SETPOINT_ACTIVO" -> "activeSetpoint"
      [] item = "PRESION_BAJA_CTO1" -> "presionBajaCto1"
      [] item = "DCH01supPS11" -> "dynCH01supPS11"
      [] item = "DynTAalarmMonitor" -> "dynTAalarmMonitor"
      [] item = "DynTankLevel" -> "dynTankLevel"
      [] item = "DynTMAsupTS01" -> "dynTMAsupTS01"
      [] item = "ESTADO_FUNCIONAMIENTO" -> "workingState"
      [] item = "SETPOINT_TRABAJO" -> "workingSetpoint"

\* get_command_mqtt_topics_and_items()[device]: the command items (wire names).
CommandItems(topic) ==
    CASE topic \in {CHILLER_01, CHILLER_02} -> {"COMANDO_ENCENDIDO_LSST", "SETPOINT_ACTIVO_LSST"}
      [] topic = DYNALENE -> {"DynTmaRemoteSP"}
      [] topic = MANEJADORA_LOWER_01 ->
             {"COMANDO_ENCENDIDO_LSST", "SETPOINT_TRABAJO_LSST", "SETPOINT_VENTILADOR_MIN_LSST"}
      [] topic = VEA_01 -> {"COMANDO_ENCENDIDO_LSST"}

\* The order in which _do_config walks the command items of a device.
CommandItemOrder(topic) ==
    CASE topic \in {CHILLER_01, CHILLER_02} -> <<"COMANDO_ENCENDIDO_LSST", "SETPOINT_ACTIVO_LSST">>
      [] topic = DYNALENE -> <<"DynTmaRemoteSP">>
      [] topic = MANEJADORA_LOWER_01 ->
             <<"COMANDO_ENCENDIDO_LSST", "SETPOINT_TRABAJO_LSST", "SETPOINT_VENTILADOR_MIN_LSST">>
      [] topic = VEA_01 -> <<"COMANDO_ENCENDIDO_LSST">>

\* CommandItemEnglish(item).name: the canonical field of a command item.
CommandItemEnglish(item) ==
    CASE item = "COMANDO_ENCENDIDO_LSST" -> "switchOn"
      [] item = "SETPOINT_ACTIVO_LSST" -> "activeSetpoint"
      [] item = "SETPOINT_TRABAJO_LSST" -> "workingSetpoint"
      [] item = "SETPOINT_VENTILADOR_MIN_LSST" -> "minFanSetpoint"
      [] item = "DynTmaRemoteSP" -> "dynTmaRemoteSP"

\* xml.command_topics[device]: the canonical command fields of a device.
command_topics(topic) ==
    CASE topic \in {CHILLER_01, CHILLER_02} -> {"switchOn", "activeSetpoint"}
      [] topic = DYNALENE -> {}
      [] topic = MANEJADORA_LOWER_01 -> {"switchOn", "workingSetpoint", "minFanSetpoint"}
      [] topic = VEA_01 -> {"switchOn"}

\* Command fields that send_events does not report.
SkippedCommandTopics == {"switchOn", "maxFanSetpoint", "minFanSetpoint"}

(***************************************************************************)
(* Wire messages.                                                          *)
(***************************************************************************)
Wire(topic, item) == Append(topic, item)

\* The messages the broker may deliver to the telemetry pipeline.
Inbound ==
    { [topic |-> Wire(CHILLER_01, "COMANDO_ENCENDIDO"), payload |-> p] : p \in {"true", "false"} }
    \cup { [topic |-> Wire(CHILLER_01, "SETPOINT_ACTIVO"), payload |-> p] : p \in {"1", "2"} }
    \cup { [topic |-> Wire(CHILLER_02, "COMANDO_ENCENDIDO"), payload |-> "true"],
           [topic |-> Wire(CHILLER_02, "SETPOINT_ACTIVO"), payload |-> "1"] }

\* Messages outside the live schema, or with a payload that does not decode,
\* next to messages of the schema.
InboundDiscard ==
    { [topic |-> <<"LSST", "PISO09", "NEW_DEVICE", "COMANDO_ENCENDIDO">>, payload |-> "true"],
      [topic |-> Wire(CHILLER_01, "NEW_ITEM"), payload |-> "2"],
      [topic |-> <<"test">>, payload |-> "1"],
      [topic |-> Wire(CHILLER_01, "SETPOINT_ACTIVO"), payload |-> "{bad"],
      [topic |-> Wire(MANEJADORA_LOWER_01, "ESTADO_FUNCIONAMIENTO"), payload |-> "Autom<E1>tico"],
      [topic |-> Wire(CHILLER_01, "SETPOINT_ACTIVO"), payload |-> "1"],
      [topic |-> Wire(DYNALENE, "DynTMAsupTS01"), payload |-> "2"],
      [topic |-> Wire(MANEJADORA_LOWER_01, "ESTADO_FUNCIONAMIENTO"), payload |-> "Automatico"] }

\* The messages delivered while commands are issued.
InboundCmd ==
    { [topic |-> Wire(CHILLER_01, "COMANDO_ENCENDIDO"), payload |-> p] : p \in {"true", "false"} }

\* The Dynalene alarm-monitor pair, each with both payloads.
InboundDynalene ==
    { [topic |-> <<"LSST", "PISO05", "DYNALENE", "Safeties", i>>, payload |-> p] :
          i \in {"DynTAalarmMonitorON", "DynTAalarmMonitorOFF"}, p \in {"true", "false"} }

\* The Dynalene tank-level triple, each with both payloads.
InboundTank ==
    { [topic |-> <<"LSST", "PISO05", "DYNALENE", "Safeties", i>>, payload |-> p] :
          i \in {"DynTankLevelOK", "DynTankLevelWarning", "DynTankLevelAlarm"},
          p \in {"true", "false"} }

\* Messages that feed the event evt_<device> of a chiller, next to telemetry.
InboundEvents ==
    { [topic |-> Wire(CHILLER_01, "ALARMA_GENERAL"), payload |-> p] : p \in {"true", "false"} }
    \cup { [topic |-> Wire(CHILLER_02, "ALARMA_GENERAL"), payload |-> "true"],
           [topic |-> Wire(VEA_01, "COMANDO_ENCENDIDO"), payload |-> "true"] }

\* Messages of the items that decide whether a device is enabled, next to a
\* telemetry message of an always enabled device.
InboundEnabled ==
    { [topic |-> Wire(CHILLER_01, "COMANDO_ENCENDIDO"), payload |-> p] : p \in {"true", "false"} }
    \cup { [topic |-> Wire(MANEJADORA_LOWER_01, "ESTADO_FUNCIONAMIENTO"), payload |-> p] :
               p \in {"Automatico", "false"} }
    \cup { [topic |-> Wire(DYNALENE, "DynTMAsupTS01"), payload |-> "2"] }

\* Readings of a pressure item in bar, of a pressure item in PSI and of an
\* item that is no pressure, next to the switch of the device.
InboundPressure ==
    { [topic |-> Wire(CHILLER_01, "PRESION_BAJA_CTO1"), payload |-> p] : p \in {"5.0", "1"} }
    \cup { [topic |-> Wire(CHILLER_01, "SETPOINT_ACTIVO"), payload |-> "5.0"],
           [topic |-> Wire(DYNALENE, "DCH01supPS11"), payload |-> "2"],
           [topic |-> Wire(CHILLER_01, "COMANDO_ENCENDIDO"), payload |-> "true"] }

\* The wire topics whose payload is a pressure in bar.
TOPICS_WITH_DATA_IN_BAR ==
    {Wire(CHILLER_01, "PRESION_BAJA_CTO1"), Wire(CHILLER_02, "PRESION_BAJA_CTO1")}

\* The wire topics whose payload is a pressure in PSI.
TOPICS_WITH_DATA_IN_PSI == {Wire(DYNALENE, "DCH01supPS11")}

\* The one message delivered while the command handlers are exercised with
\* all their inputs.
InboundDispatch ==
    { [topic |-> Wire(CHILLER_01, "COMANDO_ENCENDIDO"), payload |-> "true"] }

\* Payload bytes that are not UTF-8 text (a Latin-1 accented letter).
NotUtf8 == {"Autom<E1>tico"}

\* Payloads that are taken as strings without JSON decoding.
STRINGS_THAT_CANNOT_BE_DECODED_BY_JSON == {"Automatico"}

\* json.loads(payload): the decoded value, or None when json.loads raises.
json_loads(payload) ==
    CASE payload = "true" -> PyTrue
      [] payload = "false" -> PyFalse
      [] payload = "1" -> Num(1)
      [] payload = "2" -> Num(2)
      [] payload = "5.0" -> Num(5)
      [] OTHER -> None

\* Decoding step of _handle_mqtt_messages; None means no value was decoded.
decode_payload(payload) ==
    IF payload \in STRINGS_THAT_CANNOT_BE_DECODED_BY_JSON
    THEN Str(1)
    ELSE json_loads(payload)

\* topic_and_item.split("/") unpacked into two names.
extract_raises_split(topic_and_item) == Len(topic_and_item) # 2

\* topic_and_item.rsplit("/", 1) unpacked into two names raises ValueError
\* when the string holds no slash.
extract_raises(topic_and_item) == Len(topic_and_item) < 2

\* The wire items of the Dynalene event groups.
DynaleneGroupItems ==
    {"DynTAalarmMonitorOFF", "DynTAalarmMonitorON", "DynTMAalarmMonitorOFF",
     "DynTMAalarmMonitorON", "DynTankLevelAlarm", "DynTankLevelWarning", "DynTankLevelOK"}

\* A dictionary whose values are keys again.
DYNALENE_EVENT_GROUP_DICT_chained(item) ==
    CASE item \in {"DynTAalarmMonitorOFF", "DynTAalarmMonitorON"} -> "DynTAalarmMonitor"
      [] item \in {"DynTMAalarmMonitorOFF", "DynTMAalarmMonitorON"} -> "DynTMAalarmMonitor"
      [] item = "DynTankLevelAlarm" -> "DynTankLevelWarning"
      [] item \in {"DynTankLevelWarning", "DynTankLevelOK"} -> "DynTankLevel"

\* DYNALENE_EVENT_GROUP_DICT[item]: the group a wire item belongs to.
DYNALENE_EVENT_GROUP_DICT(item) ==
    CASE item \in {"DynTAalarmMonitorOFF", "DynTAalarmMonitorON"} -> "DynTAalarmMonitor"
      [] item \in {"DynTMAalarmMonitorOFF", "DynTMAalarmMonitorON"} -> "DynTMAalarmMonitor"
      [] item \in {"DynTankLevelAlarm", "DynTankLevelWarning", "DynTankLevelOK"} -> "DynTankLevel"

\* extract_topic_and_item for a string with at least one slash.
extract_topic_and_item(topic_and_item) ==
    LET topic == SubSeq(topic_and_item, 1, Len(topic_and_item) - 1)
        item == Last(topic_and_item)
    IN  [topic |-> IF topic \in { <<"LSST", "PISO05", "DYNALENE", "Safeties">>,
                                  <<"LSST", "PISO05", "DYNALENE", "Status">>,
                                  <<"LSST", "PISO05", "DYNALENE", "DynaleneState">> }
                   THEN DYNALENE ELSE topic,
         item |-> IF item \in DynaleneGroupItems
                  THEN DYNALENE_EVENT_GROUP_DICT(item) ELSE item]

\* Translation of the literal mode strings to True before storing.
translate_payload(payload) ==
    IF payload[1] = "str" THEN PyTrue ELSE payload

(***************************************************************************)
(* InternalItemState.                                                      *)
(***************************************************************************)
\* InternalItemState.__init__
InternalItemState == [recent_values |-> <<>>, initial_value |-> None]

\* Variant of get_most_recent_value that clears without reseeding.
get_most_recent_value_noreseed(recent_values) ==
    IF recent_values = <<>>
    THEN [value |-> None, recent_values |-> <<>>]
    ELSE [value |-> Last(recent_values), recent_values |-> <<>>]

\* get_most_recent_value: the value returned and the accumulator left behind.
\* A consume that returns the oldest value of the pass.
get_most_recent_value_first(recent_values) ==
    IF recent_values = <<>> THEN [value |-> None, recent_values |-> <<>>]
    ELSE [value |-> Head(recent_values), recent_values |-> <<Head(recent_values)>>]

get_most_recent_value(recent_values) ==
    IF recent_values = <<>>
    THEN [value |-> None, recent_values |-> <<>>]
    ELSE [value |-> Last(recent_values), recent_values |-> <<Last(recent_values)>>]

(***************************************************************************)
(* Dictionaries are functions; {} is the function with the empty domain.   *)
(***************************************************************************)
EmptyDict == [k \in {} |-> None]

\* d1 == d2 between two dictionaries of scalars.
DictEq(d1, d2) ==
    /\ DOMAIN d1 = DOMAIN d2
    /\ \A k \in DOMAIN d1 : PyEq(d1[k], d2[k])

\* Bit `index` of the mask.
Bit(mask, index) == (mask \div (2 ^ index)) % 2

RECURSIVE SumBits(_)
\* Sum of 1 << device_id_index(d) over a set of devices.
SumBits(S) ==
    IF S = {} THEN 0
    ELSE LET d == CHOOSE x \in S : TRUE
         IN  (2 ^ device_id_index(d)) + SumBits(S \ {d})

(***************************************************************************)
(* The state of the CSC.                                                   *)
(***************************************************************************)
VARIABLES
    summary_state,   \* salobj summary state
    lifecycle,       \* the hook of a state transition that is still to run
    connected,       \* mqtt_client.connected
    msgs,            \* mqtt_client.msgs, oldest first
    arrived,         \* messages delivered in this session
    hvac_state,      \* topic -> item -> InternalItemState
    event_data,      \* the cache of event payloads
    pc,              \* position of telemetry_task
    dev_i,           \* device loop index of _send_telemetry
    enabled_mask,    \* the local enabled_mask of _send_telemetry
    device_ids,      \* evt_deviceEnabled.device_ids last written in the cycle
    n_deviceEnabled, \* evt_deviceEnabled writes in the cycle
    reported,        \* what _get_topic_enabled_state returned in the cycle
    tel,             \* telemetry written per device in the cycle
    popped_old,      \* messages of the cycle start popped in the cycle
    cfg_last,        \* the last configuration payload send_events assembled
    assembled,       \* per device, the payload assembled the previous time
    errorCode,       \* code passed to fault() by the current task, 0 if none
    last_exc,        \* exception that ended the current task
    ended_at,        \* position at which the current task ended
    cmd_last,        \* the last command and its outcome
    cmd_seed,        \* per device, a commanded value awaiting its cycle
    evt_log,         \* the event writes of the drain loop in this session
    touched,         \* events that received a field in this pass
    flushed,         \* events written by the flush of this pass
    tel_written,     \* devices whose telemetry topic was written in the cycle
    processed        \* arrival numbers of the messages popped in this session

\* The accumulator exercised on its own.
VARIABLES
    acc,             \* recent_values of one InternalItemState
    acc_returned,    \* values returned by the calls since the last append
    acc_last,        \* the value appended last, None before the first
    stat_msgs,       \* hvac_csc.py: mqtt_client.msgs, oldest first
    stat_state,      \* hvac_csc.py: hvac_state of one topic, item -> state
    stat_cycle,      \* hvac_csc.py: what the last publish_telemetry did
    stat_before      \* hvac_csc.py: items consumed with data one cycle earlier

\* The publish side of the MQTT client.
VARIABLES
    pub_ack_events,  \* mid -> whether the acknowledgement event is set
    calls,           \* mid -> the publish_mqtt_message call for that message
    signals,         \* event.set callbacks handed to the event loop
    acked            \* mids the broker has acknowledged

\* The catalog functions exercised on their own.
VARIABLES
    extract_arg,     \* argument of extract_topic_and_item
    extract_ret,     \* its result and the result for the re-concatenation
    limits_arg,      \* argument of parse_limits
    limits_ret,      \* its result
    csv_rows,        \* the rows handed to the catalog load, in order
    row_i,           \* rows collected so far
    xml_topics,      \* the topics dictionary the load fills
    hvac_topics,     \* the wire topics the load indexed
    printed,         \* the rows the load printed a message for
    load_exc         \* the exception that ended the load, "" for none

mainvars == <<summary_state, lifecycle, connected, msgs, arrived, hvac_state,
              event_data, pc, dev_i, enabled_mask, device_ids, n_deviceEnabled,
              reported, tel, popped_old, cfg_last, assembled, errorCode,
              last_exc, ended_at, cmd_last, cmd_seed, evt_log, touched, flushed,
              tel_written, processed>>
statvars == <<stat_msgs, stat_state, stat_cycle, stat_before>>
evtvars == <<evt_log, touched, flushed, tel_written, processed>>
accvars == <<acc, acc_returned, acc_last, statvars>>
pubvars == <<pub_ack_events, calls, signals, acked>>
catvars == <<extract_arg, extract_ret, limits_arg, limits_ret, csv_rows, row_i,
             xml_topics, hvac_topics, printed, load_exc>>
loadvars == <<csv_rows, row_i, xml_topics, hvac_topics, printed, load_exc>>
auxvars == <<accvars, pubvars, catvars>>
vars == <<mainvars, auxvars>>

NoCfg == [device |-> <<>>, payload |-> EmptyDict, previous |-> EmptyDict, written |-> FALSE]
NoCmd == [cmd |-> "none", device |-> <<>>, published |-> <<>>, echo |-> FALSE,
          outcome |-> "none", data |-> EmptyDict]

\* HvacCsc.__init__
MainInit ==
    /\ summary_state = "STANDBY"
    /\ lifecycle = "idle"
    /\ connected = FALSE
    /\ msgs = <<>>
    /\ arrived = 0
    /\ hvac_state = EmptyDict
    /\ event_data = EmptyDict
    /\ pc = "none"
    /\ dev_i = 0
    /\ enabled_mask = 0
    /\ device_ids = -1
    /\ n_deviceEnabled = 0
    /\ reported = [d \in Devices |-> -1]
    /\ tel = [d \in Devices |-> EmptyDict]
    /\ popped_old = 0
    /\ cfg_last = NoCfg
    /\ assembled = [d \in Devices |-> EmptyDict]
    /\ errorCode = 0
    /\ last_exc = "none"
    /\ ended_at = "none"
    /\ cmd_last = NoCmd
    /\ cmd_seed = [d \in Devices |-> "none"]
    /\ evt_log = <<>>
    /\ touched = {}
    /\ flushed = {}
    /\ tel_written = {}
    /\ processed = <<>>

\* hvac_csc.py: the items of the one topic of the earlier revision.
StatItems == {"COMANDO_ENCENDIDO", "SETPOINT_ACTIVO"}

\* The idl_type of an item: "float" for an analog signal, else "boolean".
idl_type(item) == IF item = "SETPOINT_ACTIVO" THEN "float" ELSE "boolean"

\* hvac_csc.py InternalItemState.__init__
hvac_csc_InternalItemState(data_type) == [recent_values |-> <<>>, data_type |-> data_type]

\* hvac_csc.py _setup_hvac_state, for one topic.
hvac_csc_setup_hvac_state == [item \in StatItems |-> hvac_csc_InternalItemState(idl_type(item))]

\* No cycle of the earlier revision has run.
NoCycle ==
    [ran |-> FALSE,
     drained |-> 0,
     input |-> [item \in StatItems |-> <<>>],
     method |-> [item \in StatItems |-> "none"],
     value |-> [item \in StatItems |-> None],
     put |-> FALSE,
     data |-> EmptyDict]

StatIdle ==
    /\ stat_msgs = <<>>
    /\ stat_state = hvac_csc_setup_hvac_state
    /\ stat_cycle = NoCycle
    /\ stat_before = {}

AccIdle ==
    /\ acc = <<>>
    /\ acc_returned = <<>>
    /\ acc_last = None
    /\ StatIdle

\* MqttClient.__init__: no publish is in flight.
PubIdle ==
    /\ pub_ack_events = EmptyDict
    /\ calls = EmptyDict
    /\ signals = {}
    /\ acked = {}

\* No catalog function has been called.
CatIdle ==
    /\ extract_arg = <<>>
    /\ extract_ret = <<>>
    /\ limits_arg = <<>>
    /\ limits_ret = <<>>
    /\ csv_rows = <<>>
    /\ row_i = 0
    /\ xml_topics = EmptyDict
    /\ hvac_topics = {}
    /\ printed = {}
    /\ load_exc = ""

(***************************************************************************)
(* The periodic task: exception handling.                                  *)
(***************************************************************************)
\* except clauses that report every exception, cancellation included.
except_handler_fault_all(exc) == "fault"

\* except clauses that swallow every exception.
except_handler_swallow(exc) == "exit"

\* The except clauses of _publish_telemetry_regularly: cancellation is the
\* normal exit, every other exception calls fault(-1, ...).
except_handler(exc) ==
    IF exc = "CancelledError" THEN "exit" ELSE "fault"

\* The task ends with exception exc raised at its current position; fault()
\* reports error code -1 and puts the CSC in the FAULT state.
TaskEnds(exc) ==
    /\ pc' = IF exc = "CancelledError" THEN "cancelled" ELSE "done"
    /\ last_exc' = exc
    /\ ended_at' = pc
    /\ IF except_handler(exc) = "fault"
       THEN /\ summary_state' = "FAULT"
            /\ errorCode' = -1
       ELSE UNCHANGED <<summary_state, errorCode>>

\* not telemetry_task.done()
TaskRunning == pc \in {"created", "handle", "send", "mask", "sleep"}

(***************************************************************************)
(* Lifecycle: the state transitions of salobj and the hooks of the CSC.    *)
(***************************************************************************)
\* _setup_hvac_state
setup_hvac_state ==
    [topic \in Devices |-> [item \in TelemetryItems(topic) |-> InternalItemState]]

\* The command start: STANDBY -> DISABLED.
do_start ==
    /\ lifecycle = "idle"
    /\ summary_state = "STANDBY"
    /\ summary_state' = "DISABLED"
    /\ UNCHANGED <<lifecycle, connected, msgs, arrived, hvac_state, event_data,
                   pc, dev_i, enabled_mask, device_ids, n_deviceEnabled,
                   reported, tel, popped_old, cfg_last, assembled, errorCode,
                   last_exc, ended_at, cmd_last, cmd_seed>>
    /\ UNCHANGED <<evtvars, auxvars>>

\* The command enable: DISABLED -> ENABLED, then end_enable.
do_enable ==
    /\ lifecycle = "idle"
    /\ summary_state = "DISABLED"
    /\ summary_state' = "ENABLED"
    /\ lifecycle' = "end_enable"
    /\ UNCHANGED <<connected, msgs, arrived, hvac_state, event_data, pc, dev_i,
                   enabled_mask, device_ids, n_deviceEnabled, reported, tel,
                   popped_old, cfg_last, assembled, errorCode, last_exc,
                   ended_at, cmd_last, cmd_seed>>
    /\ UNCHANGED <<evtvars, auxvars>>

\* end_enable: connect when the client is not connected.  connect sets up a
\* fresh hvac_state and a fresh client and creates the telemetry task.
end_enable ==
    /\ lifecycle = "end_enable"
    /\ lifecycle' = "idle"
    /\ IF ~connected
       THEN /\ hvac_state' = setup_hvac_state
            /\ msgs' = <<>>
            /\ arrived' = 0
            /\ evt_log' = <<>>
            /\ processed' = <<>>
            /\ connected' = TRUE
            /\ pc' = "created"
            /\ errorCode' = 0
            /\ last_exc' = "none"
            /\ ended_at' = "none"
       ELSE UNCHANGED <<hvac_state, msgs, arrived, connected, pc, errorCode,
                        last_exc, ended_at, evt_log, processed>>
    /\ UNCHANGED <<summary_state, event_data, dev_i, enabled_mask, device_ids,
                   n_deviceEnabled, reported, tel, popped_old, cfg_last,
                   assembled, cmd_last, cmd_seed, touched, flushed,
                   tel_written>>
    /\ UNCHANGED auxvars

\* The command disable: ENABLED -> DISABLED, then end_disable.
do_disable ==
    /\ lifecycle = "idle"
    /\ summary_state = "ENABLED"
    /\ summary_state' = "DISABLED"
    /\ lifecycle' = "end_disable"
    /\ UNCHANGED <<connected, msgs, arrived, hvac_state, event_data, pc, dev_i,
                   enabled_mask, device_ids, n_deviceEnabled, reported, tel,
                   popped_old, cfg_last, assembled, errorCode, last_exc,
                   ended_at, cmd_last, cmd_seed>>
    /\ UNCHANGED <<evtvars, auxvars>>

\* end_disable: disconnect cancels the telemetry task when it has not
\* finished, and disconnects the client.
disconnect ==
    /\ lifecycle = "end_disable"
    /\ lifecycle' = "idle"
    /\ IF TaskRunning
       THEN TaskEnds("CancelledError")
       ELSE UNCHANGED <<pc, last_exc, ended_at, summary_state, errorCode>>
    /\ connected' = FALSE
    /\ cmd_seed' = [d \in Devices |-> "none"]
    /\ device_ids' = -1
    /\ n_deviceEnabled' = 0
    /\ reported' = [d \in Devices |-> -1]
    /\ tel' = [d \in Devices |-> EmptyDict]
    /\ popped_old' = 0
    /\ cfg_last' = NoCfg
    /\ tel_written' = {}
    /\ UNCHANGED <<msgs, arrived, hvac_state, event_data, dev_i, enabled_mask,
                   assembled, cmd_last, evt_log, touched, flushed, processed>>
    /\ UNCHANGED auxvars

\* The command standby: DISABLED or FAULT -> STANDBY.
do_standby ==
    /\ lifecycle = "idle"
    /\ summary_state \in {"DISABLED", "FAULT"}
    /\ summary_state' = "STANDBY"
    /\ UNCHANGED <<lifecycle, connected, msgs, arrived, hvac_state, event_data,
                   pc, dev_i, enabled_mask, device_ids, n_deviceEnabled,
                   reported, tel, popped_old, cfg_last, assembled, errorCode,
                   last_exc, ended_at, cmd_last, cmd_seed>>
    /\ UNCHANGED <<evtvars, auxvars>>

(***************************************************************************)
(* The transport delivers a message: on_message appends it to msgs.        *)
(***************************************************************************)
\* The wire topic of the item that decides whether the device is enabled.
EnablingItem(d) ==
    IF d \in TOPICS_WITHOUT_COMANDO_ENCENDIDO
    THEN "ESTADO_FUNCIONAMIENTO" ELSE "COMANDO_ENCENDIDO"

\* BaseMqttClient.on_message: the message is appended to msgs.
on_message(m) ==
    /\ connected
    /\ Len(msgs) < MaxQueue
    /\ arrived < MaxArrivals
    /\ msgs' = Append(msgs, [topic |-> m.topic, payload |-> m.payload, old |-> FALSE,
                             seq |-> arrived + 1])
    /\ arrived' = arrived + 1
    /\ cmd_seed' = [d \in Devices |->
                       IF m.topic = Wire(d, EnablingItem(d)) THEN "none" ELSE cmd_seed[d]]
    /\ UNCHANGED <<summary_state, lifecycle, connected, hvac_state, event_data,
                   pc, dev_i, enabled_mask, device_ids, n_deviceEnabled,
                   reported, tel, popped_old, cfg_last, assembled, errorCode,
                   last_exc, ended_at, cmd_last>>
    /\ UNCHANGED <<evtvars, auxvars>>

\* on_message for the messages of a Dynalene tank-level report.
on_report_message(m) ==
    /\ connected
    /\ Len(msgs) < MaxQueue
    /\ arrived < MaxReport
    /\ msgs' = Append(msgs, [topic |-> m.topic, payload |-> m.payload, old |-> FALSE,
                             seq |-> arrived + 1])
    /\ arrived' = arrived + 1
    /\ cmd_seed' = [d \in Devices |->
                       IF m.topic = Wire(d, EnablingItem(d)) THEN "none" ELSE cmd_seed[d]]
    /\ UNCHANGED <<summary_state, lifecycle, connected, hvac_state, event_data,
                   pc, dev_i, enabled_mask, device_ids, n_deviceEnabled,
                   reported, tel, popped_old, cfg_last, assembled, errorCode,
                   last_exc, ended_at, cmd_last>>
    /\ UNCHANGED <<evtvars, auxvars>>

(***************************************************************************)
(* _handle_mqtt_messages                                                   *)
(***************************************************************************)
\* Loop condition that leaves the last message in the queue.
msgs_pending_but_one(q) == Len(q) > 1

\* The loop condition `while len(self.mqtt_client.msgs) != 0`.
msgs_pending(q) == Len(q) # 0

\* The exception json.loads raises for a payload it cannot decode:
\* JSONDecodeError for text that is no JSON, UnicodeDecodeError for bytes
\* that are no UTF-8 text.
json_loads_raises(payload) ==
    IF payload \in NotUtf8 THEN "UnicodeDecodeError" ELSE "JSONDecodeError"

\* What leaves the try block around json.loads: except JSONDecodeError logs
\* and continues, any other exception propagates.
json_decode_error(payload) ==
    IF json_loads_raises(payload) = "JSONDecodeError"
    THEN "none" ELSE json_loads_raises(payload)

\* EventItem(item).name: the event field of a wire item that feeds a
\* discrete event, "" if the item is no event item.
EventItem(item) ==
    CASE item = "ALARMA_GENERAL" -> "generalAlarm"
      [] OTHER -> ""

\* The devices for which the CSC has an event evt_<device>.
DeviceEvents == {CHILLER_01, CHILLER_02}

\* The key of evt_<device> in event_data.
event_name(topic) == <<"evt", device_id_index(topic)>>

\* d[k] = v on a dictionary.
Put(d, k, v) == [x \in DOMAIN d \cup {k} |-> IF x = k THEN v ELSE d[x]]

\* The event branch of the loop: whether the message was stored in the
\* buffer of its event, and the buffers afterwards.
buffer_event(ed, topic, item, payload) ==
    IF EventItem(item) = ""
    THEN [raised |-> "none", stored |-> FALSE, event_data |-> ed]
    ELSE IF topic \notin Devices
    THEN [raised |-> "none", stored |-> FALSE, event_data |-> ed]
    ELSE IF topic \notin DeviceEvents
    THEN [raised |-> "AttributeError", stored |-> FALSE, event_data |-> ed]
    ELSE LET key == event_name(topic)
             old == IF key \in DOMAIN ed THEN ed[key] ELSE EmptyDict
         IN  [raised |-> "none", stored |-> TRUE,
              event_data |-> Put(ed, key, Put(old, EventItem(item), payload))]

\* DynaleneTankLevel.<name>.value
DynaleneTankLevel(name) ==
    CASE name = "OK" -> 1
      [] name = "Warning" -> 2
      [] name = "Alarm" -> 3

dynalene_payload_plain(dyn_event_grp, payload) ==
    IF dyn_event_grp \in {"DynTAalarmMonitorOFF", "DynTAalarmMonitorON",
                          "DynTMAalarmMonitorOFF", "DynTMAalarmMonitorON"}
    THEN payload
    ELSE CASE dyn_event_grp = "DynTankLevelOK" /\ payload = PyTrue
                 -> Num(DynaleneTankLevel("OK"))
           [] dyn_event_grp = "DynTankLevelWarning" /\ payload = PyTrue
                 -> Num(DynaleneTankLevel("Warning"))
           [] OTHER -> Num(DynaleneTankLevel("Alarm"))

\* The payload of a grouped Dynalene message after the grouping rules.
dynalene_payload(dyn_event_grp, payload) ==
    IF dyn_event_grp \in {"DynTAalarmMonitorOFF", "DynTAalarmMonitorON",
                          "DynTMAalarmMonitorOFF", "DynTMAalarmMonitorON"}
    THEN CASE dyn_event_grp \in {"DynTAalarmMonitorOFF", "DynTMAalarmMonitorOFF"}
                 /\ payload = PyFalse -> PyTrue
           [] dyn_event_grp \in {"DynTAalarmMonitorOFF", "DynTMAalarmMonitorOFF"}
                 /\ payload = PyTrue -> PyFalse
           [] OTHER -> payload
    ELSE CASE dyn_event_grp = "DynTankLevelOK" /\ payload = PyTrue
                 -> Num(DynaleneTankLevel("OK"))
           [] dyn_event_grp = "DynTankLevelWarning" /\ payload = PyTrue
                 -> Num(DynaleneTankLevel("Warning"))
           [] OTHER -> Num(DynaleneTankLevel("Alarm"))

\* The grouping step: topic_and_item with the group name in place of the
\* wire item, and the payload after the grouping rules.
dynalene_group(topic_and_item, payload) ==
    LET item == Last(topic_and_item)
    IN  IF item \in DynaleneGroupItems
        THEN [topic_and_item |-> Wire(SubSeq(topic_and_item, 1, Len(topic_and_item) - 1),
                                      DYNALENE_EVENT_GROUP_DICT(item)),
              payload |-> dynalene_payload(item, payload)]
        ELSE [topic_and_item |-> topic_and_item, payload |-> payload]

\* EVENT_TOPIC_DICT_ENGLISH[topic_and_item]["event"], "" when the string is
\* no key of the dictionary.
EVENT_TOPIC_DICT(topic_and_item) ==
    CASE topic_and_item = <<"LSST", "PISO05", "DYNALENE", "Safeties", "DynTankLevel">>
             -> "evt_dynaleneTankLevel"
      [] topic_and_item = <<"LSST", "PISO05", "DYNALENE", "Safeties", "DynTAalarmMonitor">>
             -> "evt_dynTAalarmMonitor"
      [] topic_and_item = <<"LSST", "PISO05", "DYNALENE", "Safeties", "DynTMAalarmMonitor">>
             -> "evt_dynTMAalarmMonitor"
      [] OTHER -> ""

\* int(payload) of a boolean or a number.
py_int(payload) == payload[2]

\* float(payload) of a boolean or a number.
py_float(payload) == payload[2]

\* A conversion to kPa.
bar_to_pa_kilo(value) == value * 100

\* bar_to_pa(value): one bar is 100000 Pa.
bar_to_pa(value) == value * 100000

\* psi_to_pa(value): one psi is 6894.757293 Pa; the values of the model are
\* whole numbers, the result is given in whole Pa.
psi_to_pa(value) == (value * 6894757) \div 1000

\* The unit conversions before the payload is stored.
convert_payload(topic_and_item, payload) ==
    LET in_bar == IF topic_and_item \in TOPICS_WITH_DATA_IN_BAR
                  THEN Num(bar_to_pa(py_float(payload))) ELSE payload
    IN  IF topic_and_item \in TOPICS_WITH_DATA_IN_PSI
        THEN Num(psi_to_pa(py_float(in_bar))) ELSE in_bar

\* One iteration of the loop body for the message msg: the exception it
\* raises, the state store and the event buffers it leaves, the events it
\* buffered and the events it wrote.
handle_one(hs, ed, msg) ==
    LET payload == decode_payload(msg.payload)
        same == [raised |-> "none", hvac_state |-> hs, event_data |-> ed,
                 buffered |-> {}, written |-> <<>>]
    IN  IF payload = None
        THEN [same EXCEPT !.raised = json_decode_error(msg.payload)]
        ELSE IF extract_raises(msg.topic)
        THEN [same EXCEPT !.raised = "ValueError"]
        ELSE LET ti == extract_topic_and_item(msg.topic)
                 ev == buffer_event(ed, ti.topic, ti.item, payload)
             IN  IF ev.raised # "none"
                 THEN [same EXCEPT !.raised = ev.raised]
                 ELSE IF ev.stored
                 THEN [same EXCEPT !.event_data = ev.event_data,
                                   !.buffered = {event_name(ti.topic)}]
                 ELSE IF ti.topic \notin DOMAIN hs
                 THEN same
                 ELSE IF ti.item \notin DOMAIN hs[ti.topic]
                 THEN same
                 ELSE LET g == dynalene_group(msg.topic, payload)
                      IN  IF EVENT_TOPIC_DICT(g.topic_and_item) # ""
                          THEN [same EXCEPT !.written =
                                   << [event |-> EVENT_TOPIC_DICT(g.topic_and_item),
                                       item |-> Last(msg.topic),
                                       payload |-> payload,
                                       state |-> py_int(g.payload)] >>]
                          ELSE [same EXCEPT !.hvac_state =
                                   [hs EXCEPT ![ti.topic][ti.item].recent_values =
                                                  Append(@, convert_payload(g.topic_and_item,
                                                                translate_payload(g.payload)))]]

\* publish_telemetry starts: first cycle of a new task, or the sleep is over.
BeginCycle ==
    /\ pc \in {"created", "sleep"}
    /\ pc' = "handle"
    /\ msgs' = [i \in 1..Len(msgs) |-> [msgs[i] EXCEPT !.old = TRUE]]
    /\ device_ids' = -1
    /\ n_deviceEnabled' = 0
    /\ reported' = [d \in Devices |-> -1]
    /\ tel' = [d \in Devices |-> EmptyDict]
    /\ popped_old' = 0
    /\ cfg_last' = NoCfg
    /\ cmd_seed' = [d \in Devices |->
                       CASE cmd_seed[d] = "new_on" -> "cycle_on"
                         [] cmd_seed[d] = "new_off" -> "cycle_off"
                         [] OTHER -> "none"]
    /\ touched' = {}
    /\ flushed' = {}
    /\ tel_written' = {}
    /\ UNCHANGED <<summary_state, lifecycle, connected, arrived, hvac_state,
                   event_data, dev_i, enabled_mask, assembled, errorCode,
                   last_exc, ended_at, cmd_last, evt_log, processed>>
    /\ UNCHANGED auxvars

AnyOld(q) == \E i \in 1..Len(q) : q[i].old

\* deque.pop(): the newest message and the queue without it.
popleft_right(q) == [msg |-> Last(q), rest |-> SubSeq(q, 1, Len(q) - 1)]

\* msgs.popleft(): the oldest message and the queue without it.
popleft(q) == [msg |-> Head(q), rest |-> Tail(q)]

\* One iteration of the while loop: pop the oldest message and process it.
HandleMessage ==
    /\ pc = "handle"
    /\ msgs_pending(msgs)
    /\ LET msg == popleft(msgs).msg
           r == handle_one(hvac_state, event_data, msg)
       IN  /\ msgs' = popleft(msgs).rest
           /\ processed' = Append(processed, msg.seq)
           /\ popped_old' = IF msg.old THEN popped_old + 1 ELSE popped_old
           /\ hvac_state' = r.hvac_state
           /\ event_data' = r.event_data
           /\ touched' = touched \cup r.buffered
           /\ evt_log' = evt_log \o [k \in 1..Len(r.written) |->
                                        [event |-> r.written[k].event,
                                         item |-> r.written[k].item,
                                         payload |-> r.written[k].payload,
                                         state |-> r.written[k].state,
                                         pending |-> Len(popleft(msgs).rest)]]
           /\ IF r.raised = "none"
              THEN UNCHANGED <<pc, summary_state, errorCode, last_exc, ended_at>>
              ELSE TaskEnds(r.raised)
    /\ UNCHANGED <<lifecycle, connected, arrived, dev_i,
                   enabled_mask, device_ids, n_deviceEnabled, reported, tel,
                   cfg_last, assembled, cmd_last, cmd_seed, flushed, tel_written>>
    /\ UNCHANGED auxvars

\* The flush after the loop: the events evt_<device> that are written, one
\* set_write for every device event that has a buffer in event_data.
flush_events(ed) == {event_name(d) : d \in {x \in DeviceEvents : event_name(x) \in DOMAIN ed}}

\* The loop ends, the event buffers are flushed and _send_telemetry starts.
EndHandle ==
    /\ pc = "handle"
    /\ ~msgs_pending(msgs)
    /\ pc' = "send"
    /\ dev_i' = 1
    /\ enabled_mask' = 0
    /\ flushed' = flush_events(event_data)
    /\ UNCHANGED <<summary_state, lifecycle, connected, msgs, arrived,
                   hvac_state, event_data, device_ids, n_deviceEnabled,
                   reported, tel, popped_old, cfg_last, assembled, errorCode,
                   last_exc, ended_at, cmd_last, cmd_seed, evt_log, touched,
                   tel_written, processed>>
    /\ UNCHANGED auxvars

(***************************************************************************)
(* _send_telemetry and send_events                                         *)
(***************************************************************************)
get_topic_enabled_state_seen(hs, topic) ==
    LET item == IF topic \in TOPICS_WITHOUT_COMANDO_ENCENDIDO
                THEN "ESTADO_FUNCIONAMIENTO" ELSE "COMANDO_ENCENDIDO"
    IN  [device_id_index |-> device_id_index(topic),
         enabled |-> IF topic \in TOPICS_ALWAYS_ENABLED
                     THEN IF \E i \in DOMAIN hs[topic] : hs[topic][i].recent_values # <<>>
                          THEN PyTrue ELSE PyFalse
                     ELSE IF Len(hs[topic][item].recent_values) > 0
                          THEN Last(hs[topic][item].recent_values)
                          ELSE PyFalse]

get_topic_enabled_state_first(hs, topic) ==
    LET item == IF topic \in TOPICS_WITHOUT_COMANDO_ENCENDIDO
                THEN "ESTADO_FUNCIONAMIENTO" ELSE "COMANDO_ENCENDIDO"
    IN  [device_id_index |-> device_id_index(topic),
         enabled |-> IF topic \in TOPICS_ALWAYS_ENABLED
                     THEN PyTrue
                     ELSE IF Len(hs[topic][item].recent_values) > 0
                          THEN Head(hs[topic][item].recent_values)
                          ELSE PyFalse]

\* _get_topic_enabled_state: the device index and the enabled flag.
get_topic_enabled_state(hs, topic) ==
    LET item == IF topic \in TOPICS_WITHOUT_COMANDO_ENCENDIDO
                THEN "ESTADO_FUNCIONAMIENTO" ELSE "COMANDO_ENCENDIDO"
    IN  [device_id_index |-> device_id_index(topic),
         enabled |-> IF topic \in TOPICS_ALWAYS_ENABLED
                     THEN PyTrue
                     ELSE IF Len(hs[topic][item].recent_values) > 0
                          THEN Last(hs[topic][item].recent_values)
                          ELSE PyFalse]

\* Mask accumulation that adds the index instead of the bit.
add_to_mask_index(mask, index) == mask + index

\* enabled_mask += 1 << device_id_index
add_to_mask(mask, index) == mask + 2 ^ index

\* The data dictionary of one device: canonical field -> value, for the
\* items whose get_most_recent_value is not None.
telemetry_data(hs, topic) ==
    LET reporting == {item \in DOMAIN hs[topic] :
                          get_most_recent_value(hs[topic][item].recent_values).value # None}
    IN  [name \in {TelemetryItemEnglish(item) : item \in reporting} |->
            LET item == CHOOSE i \in reporting : TelemetryItemEnglish(i) = name
            IN  get_most_recent_value(hs[topic][item].recent_values).value]

\* The accumulators of one device after its items were consumed.
consume_items(hs, topic) ==
    [hs EXCEPT ![topic] =
        [item \in DOMAIN hs[topic] |->
            [hs[topic][item] EXCEPT
                !.recent_values = get_most_recent_value(hs[topic][item].recent_values).recent_values]]]

\* Cache key shared by the devices of one family.
event_data_key_family(topic) == <<command_group(topic), 0>>

\* event_data_key = f"{event_name}:{device_id}"
event_data_key(topic) == <<command_group(topic), device_id_index(topic)>>

\* data_item of a command field.
data_item(command_topic) ==
    IF command_topic = "openColdValve" THEN "coldValveOpening" ELSE command_topic

\* send_events without the test of the enabled flag.
send_events_any(ed, topic, enabled, data) ==
    IF topic \notin TOPICS_WITHOUT_CONFIGURATION
    THEN LET fields == command_topics(topic) \ SkippedCommandTopics
         IN  IF command_groups(topic) = <<>>
             THEN [raised |-> "IndexError", assembled |-> FALSE, written |-> FALSE,
                   payload |-> EmptyDict, event_data |-> ed]
             ELSE
             IF \E f \in fields : data_item(f) \notin DOMAIN data
             THEN [raised |-> "KeyError", assembled |-> FALSE, written |-> FALSE,
                   payload |-> EmptyDict, event_data |-> ed]
             ELSE LET payload == [f \in fields \cup {"device_id"} |->
                                     IF f = "device_id"
                                     THEN Num(device_id_index(topic))
                                     ELSE data[data_item(f)]]
                      key == event_data_key(topic)
                      cached == IF key \in DOMAIN ed THEN ed[key] ELSE EmptyDict
                  IN  [raised |-> "none", assembled |-> TRUE,
                       written |-> ~DictEq(payload, cached),
                       payload |-> payload,
                       event_data |-> (key :> payload) @@ ed]
    ELSE [raised |-> "none", assembled |-> FALSE, written |-> FALSE,
          payload |-> EmptyDict, event_data |-> ed]

\* send_events: whether it raised, whether the configuration event was
\* written, the payload assembled and the cache it leaves behind.
send_events(ed, topic, enabled, data) ==
    IF topic \notin TOPICS_WITHOUT_CONFIGURATION /\ Truthy(enabled)
    THEN LET fields == command_topics(topic) \ SkippedCommandTopics
         IN  IF command_groups(topic) = <<>>
             THEN [raised |-> "IndexError", assembled |-> FALSE, written |-> FALSE,
                   payload |-> EmptyDict, event_data |-> ed]
             ELSE
             IF \E f \in fields : data_item(f) \notin DOMAIN data
             THEN [raised |-> "KeyError", assembled |-> FALSE, written |-> FALSE,
                   payload |-> EmptyDict, event_data |-> ed]
             ELSE LET payload == [f \in fields \cup {"device_id"} |->
                                     IF f = "device_id"
                                     THEN Num(device_id_index(topic))
                                     ELSE data[data_item(f)]]
                      key == event_data_key(topic)
                      cached == IF key \in DOMAIN ed THEN ed[key] ELSE EmptyDict
                  IN  [raised |-> "none", assembled |-> TRUE,
                       written |-> ~DictEq(payload, cached),
                       payload |-> payload,
                       event_data |-> (key :> payload) @@ ed]
    ELSE [raised |-> "none", assembled |-> FALSE, written |-> FALSE,
          payload |-> EmptyDict, event_data |-> ed]

telemetry_written_always(data) == TRUE

\* `if data:` before telemetry_method.set_write(**data): the telemetry topic
\* of the device is written when the data dictionary is not empty.
telemetry_written(data) == data # EmptyDict

\* One iteration of the device loop of _send_telemetry.
SendDevice ==
    /\ pc = "send"
    /\ dev_i <= Len(DeviceOrder)
    /\ LET topic == DeviceOrder[dev_i]
           st == get_topic_enabled_state(hvac_state, topic)
           data == telemetry_data(hvac_state, topic)
           ev == send_events(event_data, topic, st.enabled, data)
       IN  /\ enabled_mask' = IF Truthy(st.enabled)
                              THEN add_to_mask(enabled_mask, st.device_id_index)
                              ELSE enabled_mask
           /\ reported' = [reported EXCEPT ![topic] = IF Truthy(st.enabled) THEN 1 ELSE 0]
           /\ hvac_state' = consume_items(hvac_state, topic)
           /\ tel' = [tel EXCEPT ![topic] = data]
           /\ tel_written' = IF telemetry_written(data)
                             THEN tel_written \cup {topic} ELSE tel_written
           /\ event_data' = ev.event_data
           /\ IF ev.assembled
              THEN /\ cfg_last' = [device |-> topic, payload |-> ev.payload,
                                   previous |-> assembled[topic], written |-> ev.written]
                   /\ assembled' = [assembled EXCEPT ![topic] = ev.payload]
              ELSE /\ cfg_last' = NoCfg
                   /\ UNCHANGED assembled
           /\ IF ev.raised = "none"
              THEN /\ dev_i' = dev_i + 1
                   /\ pc' = IF dev_i = Len(DeviceOrder) THEN "mask" ELSE "send"
                   /\ UNCHANGED <<summary_state, errorCode, last_exc, ended_at>>
              ELSE /\ TaskEnds(ev.raised)
                   /\ UNCHANGED dev_i
    /\ UNCHANGED <<lifecycle, connected, msgs, arrived, device_ids,
                   n_deviceEnabled, popped_old, cmd_last, cmd_seed, evt_log,
                   touched, flushed, processed>>
    /\ UNCHANGED auxvars

\* After the device loop: evt_deviceEnabled.set_write(device_ids=enabled_mask),
\* then the sleep of _publish_telemetry_regularly.
WriteDeviceEnabled ==
    /\ pc = "mask"
    /\ device_ids' = enabled_mask
    /\ n_deviceEnabled' = n_deviceEnabled + 1
    /\ pc' = "sleep"
    /\ UNCHANGED <<summary_state, lifecycle, connected, msgs, arrived,
                   hvac_state, event_data, dev_i, enabled_mask, reported, tel,
                   popped_old, cfg_last, assembled, errorCode, last_exc,
                   ended_at, cmd_last, cmd_seed>>
    /\ UNCHANGED <<evtvars, auxvars>>

(***************************************************************************)
(* The telemetry pipeline.                                                 *)
(***************************************************************************)
Init == MainInit /\ AccIdle /\ PubIdle /\ CatIdle

Next ==
    \/ do_start
    \/ do_enable
    \/ end_enable
    \/ do_disable
    \/ disconnect
    \/ do_standby
    \/ \E m \in Inbound : on_message(m)
    \/ BeginCycle
    \/ HandleMessage
    \/ EndHandle
    \/ SendDevice
    \/ WriteDeviceEnabled

Spec == Init /\ [][Next]_vars

(***************************************************************************)
(* Command dispatch.                                                       *)
(***************************************************************************)
NaN == <<"nan", 0>>

assert_enabled_raises_fault == summary_state \notin {"ENABLED", "FAULT"}

\* A command is rejected by assert_enabled in every state but ENABLED.
assert_enabled_raises == summary_state # "ENABLED"

Rejected(cmd, d) ==
    /\ cmd_last' = [cmd |-> cmd, device |-> d, published |-> <<>>, echo |-> FALSE,
                    outcome |-> "rejected", data |-> EmptyDict]
    /\ UNCHANGED <<hvac_state, cmd_seed>>

\* A housekeeping that does not look at the answer of the transport.
set_enabled_state_unconditional(hs, topic, enabled, was_published) ==
    LET telemetry_item == IF topic \in TOPICS_WITHOUT_COMANDO_ENCENDIDO
                          THEN "ESTADO_FUNCIONAMIENTO" ELSE "COMANDO_ENCENDIDO"
    IN  IF telemetry_item \in DOMAIN hs[topic]
        THEN [outcome |-> "ok",
              hvac_state |-> [hs EXCEPT ![topic][telemetry_item].initial_value =
                                            IF enabled THEN PyTrue ELSE PyFalse]]
        ELSE [outcome |-> "KeyError", hvac_state |-> hs]

\* _set_enabled_state: the accumulators it leaves behind and how the handler
\* ends, given the answer was_published of the transport.
set_enabled_state(hs, topic, enabled, was_published) ==
    LET telemetry_item == IF topic \in TOPICS_WITHOUT_COMANDO_ENCENDIDO
                          THEN "ESTADO_FUNCIONAMIENTO" ELSE "COMANDO_ENCENDIDO"
    IN  IF was_published
        THEN IF telemetry_item \in DOMAIN hs[topic]
             THEN [outcome |-> "ok",
                   hvac_state |-> [hs EXCEPT ![topic][telemetry_item].initial_value =
                                                 IF enabled THEN PyTrue ELSE PyFalse]]
             ELSE [outcome |-> "KeyError", hvac_state |-> hs]
        ELSE [outcome |-> "ok", hvac_state |-> hs]

\* do_enableDevice / do_disableDevice
do_enableDevice(d, enabled, was_published) ==
    /\ lifecycle = "idle"
    /\ LET cmd == IF enabled THEN "enableDevice" ELSE "disableDevice"
       IN  IF assert_enabled_raises
           THEN Rejected(cmd, d)
           ELSE LET r == set_enabled_state(hvac_state, d, enabled, was_published)
                    queued == \E i \in 1..Len(msgs) : msgs[i].topic = Wire(d, EnablingItem(d))
                IN  /\ hvac_state' = r.hvac_state
                    /\ cmd_last' = [cmd |-> cmd, device |-> d,
                                    published |-> << [topic |-> Wire(d, "COMANDO_ENCENDIDO_LSST"),
                                                      payload |-> IF enabled THEN PyTrue ELSE PyFalse,
                                                      ack |-> was_published] >>,
                                    echo |-> FALSE,
                                    outcome |-> r.outcome,
                                    data |-> EmptyDict]
                    /\ cmd_seed' = [cmd_seed EXCEPT ![d] =
                                       IF was_published /\ r.outcome = "ok" /\ ~queued
                                       THEN (IF enabled THEN "new_on" ELSE "new_off")
                                       ELSE "none"]
    /\ UNCHANGED <<summary_state, lifecycle, connected, msgs, arrived, event_data,
                   pc, dev_i, enabled_mask, device_ids, n_deviceEnabled,
                   reported, tel, popped_old, cfg_last, assembled, errorCode,
                   last_exc, ended_at>>
    /\ UNCHANGED <<evtvars, auxvars>>

\* The configurable command items of a device: all but the switch item.
ConfigItems(d) == CommandItems(d) \ {"COMANDO_ENCENDIDO_LSST"}

config_messages_nan(d, data, was_published) ==
    LET order == CommandItemOrder(d)
        sent == SelectSeq(order, LAMBDA item : item # "COMANDO_ENCENDIDO_LSST")
    IN  [k \in 1..Len(sent) |->
            [topic |-> Wire(d, sent[k]),
             payload |-> data[CommandItemEnglish(sent[k])],
             ack |-> was_published[sent[k]]]]

\* The loop of _do_config: the messages handed to the transport, in order,
\* given the command data (canonical field -> value) and the answer of the
\* transport for each item.
config_messages(d, data, was_published) ==
    LET order == CommandItemOrder(d)
        sent == SelectSeq(order, LAMBDA item :
                    /\ item # "COMANDO_ENCENDIDO_LSST"
                    /\ data[CommandItemEnglish(item)] # NaN)
    IN  [k \in 1..Len(sent) |->
            [topic |-> Wire(d, sent[k]),
             payload |-> data[CommandItemEnglish(sent[k])],
             ack |-> was_published[sent[k]]]]

\* The command data of a config<Family> command: one value per canonical
\* configuration field of the device.
ConfigData(d) == [{CommandItemEnglish(i) : i \in ConfigItems(d)} -> {Num(1), NaN}]

\* _do_config
do_config(d, data, was_published) ==
    /\ lifecycle = "idle"
    /\ IF assert_enabled_raises
       THEN Rejected("config", d)
       ELSE /\ cmd_last' = [cmd |-> "config", device |-> d,
                            published |-> config_messages(d, data, was_published),
                            echo |-> FALSE,
                            outcome |-> "ok",
                            data |-> data]
            /\ UNCHANGED <<hvac_state, cmd_seed>>
    /\ UNCHANGED <<summary_state, lifecycle, connected, msgs, arrived, event_data,
                   pc, dev_i, enabled_mask, device_ids, n_deviceEnabled,
                   reported, tel, popped_old, cfg_last, assembled, errorCode,
                   last_exc, ended_at>>
    /\ UNCHANGED <<evtvars, auxvars>>

dynalene_echo_always(was_published) == TRUE

\* Whether _do_dynalene_command writes the echo event evt_<command>.
dynalene_echo(was_published) == was_published

\* _do_dynalene_command: one message to the Dynalene topic, and the echo
\* event evt_<command> when the transport acknowledged it.
do_dynalene_command(value, was_published) ==
    /\ lifecycle = "idle"
    /\ IF assert_enabled_raises
       THEN Rejected("dynTmaRemoteSP", DYNALENE)
       ELSE /\ cmd_last' = [cmd |-> "dynTmaRemoteSP", device |-> DYNALENE,
                            published |-> << [topic |-> Wire(DYNALENE, "DynTmaRemoteSP"),
                                              payload |-> value,
                                              ack |-> was_published] >>,
                            echo |-> dynalene_echo(was_published),
                            outcome |-> "ok",
                            data |-> EmptyDict]
            /\ UNCHANGED <<hvac_state, cmd_seed>>
    /\ UNCHANGED <<summary_state, lifecycle, connected, msgs, arrived, event_data,
                   pc, dev_i, enabled_mask, device_ids, n_deviceEnabled,
                   reported, tel, popped_old, cfg_last, assembled, errorCode,
                   last_exc, ended_at>>
    /\ UNCHANGED <<evtvars, auxvars>>

\* The CSC with its command handlers.
NextCmd ==
    \/ do_start
    \/ do_enable
    \/ end_enable
    \/ do_disable
    \/ disconnect
    \/ do_standby
    \/ \E m \in InboundCmd : on_message(m)
    \/ BeginCycle
    \/ HandleMessage
    \/ EndHandle
    \/ SendDevice
    \/ WriteDeviceEnabled
    \/ \E d \in {CHILLER_01, DYNALENE}, enabled \in BOOLEAN, was_published \in BOOLEAN :
           do_enableDevice(d, enabled, was_published)
    \/ \E data \in ConfigData(CHILLER_01), was_published \in [ConfigItems(CHILLER_01) -> BOOLEAN] :
           do_config(CHILLER_01, data, was_published)
    \/ \E was_published \in BOOLEAN : do_dynalene_command(Num(1), was_published)

SpecCmd == Init /\ [][NextCmd]_vars

\* The command handlers with every input, next to a running telemetry task.
NextDispatch ==
    \/ do_start
    \/ do_enable
    \/ end_enable
    \/ do_disable
    \/ disconnect
    \/ do_standby
    \/ \E m \in InboundDispatch : on_message(m)
    \/ BeginCycle
    \/ HandleMessage
    \/ EndHandle
    \/ SendDevice
    \/ WriteDeviceEnabled
    \/ \E d \in {CHILLER_01, DYNALENE}, enabled \in BOOLEAN, was_published \in BOOLEAN :
           do_enableDevice(d, enabled, was_published)
    \/ \E d \in {CHILLER_01, MANEJADORA_LOWER_01} :
           \E data \in ConfigData(d), was_published \in [ConfigItems(d) -> BOOLEAN] :
               do_config(d, data, was_published)
    \/ \E value \in {Num(1), Num(2)}, was_published \in BOOLEAN :
           do_dynalene_command(value, was_published)

SpecDispatch == Init /\ [][NextDispatch]_vars

\* The switch of a chiller and its alarm, which feeds the event buffer of the
\* chiller, delivered while commands for the chiller are issued.
InboundFrame ==
    { [topic |-> Wire(CHILLER_01, "COMANDO_ENCENDIDO"), payload |-> "false"],
      [topic |-> Wire(CHILLER_01, "ALARMA_GENERAL"), payload |-> "true"] }

\* The command handlers next to a telemetry task that fills hvac_state and
\* event_data.
NextFrame ==
    \/ do_start
    \/ do_enable
    \/ end_enable
    \/ do_disable
    \/ disconnect
    \/ do_standby
    \/ \E m \in InboundFrame : on_message(m)
    \/ BeginCycle
    \/ HandleMessage
    \/ EndHandle
    \/ SendDevice
    \/ WriteDeviceEnabled
    \/ \E enabled \in BOOLEAN, was_published \in BOOLEAN :
           do_enableDevice(CHILLER_01, enabled, was_published)
    \/ \E data \in ConfigData(CHILLER_01), was_published \in [ConfigItems(CHILLER_01) -> BOOLEAN] :
           do_config(CHILLER_01, data, was_published)

SpecFrame == Init /\ [][NextFrame]_vars

(***************************************************************************)
(* Ingestion of messages outside the live schema.                          *)
(***************************************************************************)
NextDiscard ==
    \/ do_start
    \/ do_enable
    \/ end_enable
    \/ do_disable
    \/ disconnect
    \/ do_standby
    \/ \E m \in InboundDiscard : on_message(m)
    \/ BeginCycle
    \/ HandleMessage
    \/ EndHandle
    \/ SendDevice
    \/ WriteDeviceEnabled

SpecDiscard == Init /\ [][NextDiscard]_vars

(***************************************************************************)
(* Ingestion of the grouped Dynalene messages and of event items.          *)
(***************************************************************************)
NextDynalene ==
    \/ do_start
    \/ do_enable
    \/ end_enable
    \/ do_disable
    \/ disconnect
    \/ do_standby
    \/ \E m \in InboundDynalene : on_message(m)
    \/ BeginCycle
    \/ HandleMessage
    \/ EndHandle
    \/ SendDevice
    \/ WriteDeviceEnabled

SpecDynalene == Init /\ [][NextDynalene]_vars

NextTank ==
    \/ do_start
    \/ do_enable
    \/ end_enable
    \/ do_disable
    \/ disconnect
    \/ do_standby
    \/ \E m \in InboundTank : on_report_message(m)
    \/ BeginCycle
    \/ HandleMessage
    \/ EndHandle
    \/ SendDevice
    \/ WriteDeviceEnabled

SpecTank == Init /\ [][NextTank]_vars

NextPressure ==
    \/ do_start
    \/ do_enable
    \/ end_enable
    \/ do_disable
    \/ disconnect
    \/ do_standby
    \/ \E m \in InboundPressure : on_message(m)
    \/ BeginCycle
    \/ HandleMessage
    \/ EndHandle
    \/ SendDevice
    \/ WriteDeviceEnabled

SpecPressure == Init /\ [][NextPressure]_vars

NextEvents ==
    \/ do_start
    \/ do_enable
    \/ end_enable
    \/ do_disable
    \/ disconnect
    \/ do_standby
    \/ \E m \in InboundEvents : on_message(m)
    \/ BeginCycle
    \/ HandleMessage
    \/ EndHandle
    \/ SendDevice
    \/ WriteDeviceEnabled

SpecEvents == Init /\ [][NextEvents]_vars

(***************************************************************************)
(* The enabled flag of the devices.                                        *)
(***************************************************************************)
NextEnabled ==
    \/ do_start
    \/ do_enable
    \/ end_enable
    \/ do_disable
    \/ disconnect
    \/ do_standby
    \/ \E m \in InboundEnabled : on_message(m)
    \/ BeginCycle
    \/ HandleMessage
    \/ EndHandle
    \/ SendDevice
    \/ WriteDeviceEnabled

SpecEnabled == Init /\ [][NextEnabled]_vars

(***************************************************************************)
(* The publish side of the MQTT client: publish_mqtt_message waits for the *)
(* acknowledgement of its message, at most for its timeout.  on_publish    *)
(* is called by the transport, outside the event loop, and hands the       *)
(* completion to the loop.                                                 *)
(***************************************************************************)
\* The mids of the publish calls made so far.
Mids == DOMAIN calls

\* Timer that fires one tick late.
timeout_expired_late(elapsed, timeout) == elapsed > timeout

\* The timer of the bounded wait fires when the timeout has elapsed.
timeout_expired(elapsed, timeout) == elapsed >= timeout

\* Return path that leaves the entry of the message in the table.
release_keep(events, mid) == events

\* The return path of publish_mqtt_message removes the entry of its message.
release(events, mid) == [m \in DOMAIN events \ {mid} |-> events[m]]

\* publish_mqtt_message(topic, payload, qos, timeout): the message gets the
\* next mid, its acknowledgement event is registered and the call waits.
publish_mqtt_message(timeout) ==
    /\ Cardinality(Mids) < MaxPublish
    /\ LET mid == Cardinality(Mids) + 1
       IN  /\ calls' = Put(calls, mid, [pc |-> "waiting", timeout |-> timeout,
                                        elapsed |-> 0, result |-> FALSE, ack_at |-> -1])
           /\ pub_ack_events' = Put(pub_ack_events, mid, FALSE)
    /\ UNCHANGED <<signals, acked>>
    /\ UNCHANGED <<mainvars, accvars, catvars>>

\* on_publish(client, userdata, mid, reason_code, properties): the broker
\* acknowledged message mid.  A waiting call is signalled through the event
\* loop; an acknowledgement nobody waits for is ignored.
on_publish(mid) ==
    /\ mid \in Mids \ acked
    /\ acked' = acked \cup {mid}
    /\ IF mid \in DOMAIN pub_ack_events
       THEN /\ signals' = signals \cup {mid}
            /\ calls' = [calls EXCEPT ![mid].ack_at = calls[mid].elapsed]
       ELSE UNCHANGED <<signals, calls>>
    /\ UNCHANGED pub_ack_events
    /\ UNCHANGED <<mainvars, accvars, catvars>>

\* The event loop runs the callback on_publish handed over: the event of
\* the message is set, if the message still has one.
set_event(mid) ==
    /\ mid \in signals
    /\ signals' = signals \ {mid}
    /\ pub_ack_events' = IF mid \in DOMAIN pub_ack_events
                         THEN [pub_ack_events EXCEPT ![mid] = TRUE]
                         ELSE pub_ack_events
    /\ UNCHANGED <<calls, acked>>
    /\ UNCHANGED <<mainvars, accvars, catvars>>

\* The waiting call resumes after its event was set and returns True.
resume(mid) ==
    /\ mid \in Mids
    /\ calls[mid].pc = "waiting"
    /\ mid \in DOMAIN pub_ack_events
    /\ pub_ack_events[mid]
    /\ calls' = [calls EXCEPT ![mid].pc = "returned", ![mid].result = TRUE]
    /\ pub_ack_events' = release(pub_ack_events, mid)
    /\ UNCHANGED <<signals, acked>>
    /\ UNCHANGED <<mainvars, accvars, catvars>>

\* The calls that wait for their acknowledgement.
Waiting == {mid \in Mids : calls[mid].pc = "waiting"}

\* One tick of the clock of the event loop.  The loop runs the callbacks
\* that are ready before it sleeps; the timers that are due fire, and a
\* call whose timer fired returns False.
Tick ==
    /\ signals = {}
    /\ Waiting # {}
    /\ \A mid \in Waiting : /\ mid \in DOMAIN pub_ack_events => ~pub_ack_events[mid]
                             /\ calls[mid].elapsed <= MaxTimeout
    /\ LET due == {mid \in Waiting :
                       timeout_expired(calls[mid].elapsed + 1, calls[mid].timeout)}
           RECURSIVE release_all(_, _)
           release_all(events, S) ==
               IF S = {} THEN events
               ELSE LET mid == CHOOSE x \in S : TRUE
                    IN  release_all(release(events, mid), S \ {mid})
       IN  /\ calls' = [mid \in Mids |->
                           IF mid \in Waiting
                           THEN [calls[mid] EXCEPT
                                    !.elapsed = @ + 1,
                                    !.pc = IF mid \in due THEN "returned" ELSE @]
                           ELSE calls[mid]]
           /\ pub_ack_events' = release_all(pub_ack_events, due)
    /\ UNCHANGED <<signals, acked>>
    /\ UNCHANGED <<mainvars, accvars, catvars>>

NextPublish ==
    \/ \E timeout \in 1..MaxTimeout : publish_mqtt_message(timeout)
    \/ \E mid \in 1..MaxPublish : on_publish(mid)
    \/ \E mid \in 1..MaxPublish : set_event(mid)
    \/ \E mid \in 1..MaxPublish : resume(mid)
    \/ Tick

SpecPublish == Init /\ [][NextPublish]_vars

(***************************************************************************)
(* extract_topic_and_item applied to a string and to the re-concatenation  *)
(* of its result.  A string is the sequence of its parts between slashes.  *)
(***************************************************************************)
ExtractPrefixes ==
    {CHILLER_01, CHILLER_02, DYNALENE, MANEJADORA_LOWER_01, VEA_01,
     <<"LSST", "PISO05", "DYNALENE", "Safeties">>,
     <<"LSST", "PISO05", "DYNALENE", "Status">>,
     <<"LSST", "PISO05", "DYNALENE", "DynaleneState">>,
     <<"LSST", "PISO05", "DYNALENE", "Safeties", "Status">>,
     <<"LSST">>, <<"">>}

ExtractItems ==
    DynaleneGroupItems \cup
    {"DynTankLevel", "DynTMAalarm", "DynRemoteLocalModeStatus", "DynaleneState",
     "Safeties", "Status", "TEMPERATURA_AGUA_RETORNO_EVAPORADOR",
     "ESTADO_FUNCIONAMIENTO", "STRING_WITHOUT_FORWARD_SLASH", ""}

\* The strings handed to extract_topic_and_item: with and without a slash.
ExtractInputs ==
    {prefix \o <<item>> : prefix \in ExtractPrefixes, item \in ExtractItems}
        \cup {<<item>> : item \in ExtractItems}

\* The outcome of one call: the exception raised or the pair returned.
Raised(exc) == [exc |-> exc, topic |-> <<>>, item |-> ""]
Returned(pair) == [exc |-> "", topic |-> pair.topic, item |-> pair.item]

\* MqttInfoReader.extract_topic_and_item, exception included.
mir_extract_topic_and_item(topic_and_item) ==
    IF extract_raises(topic_and_item)
    THEN Raised("ValueError")
    ELSE Returned(extract_topic_and_item(topic_and_item))

\* extract_topic_and_item of the XML generator: the bare rsplit.
xml_extract_topic_and_item(topic_and_item) ==
    IF extract_raises(topic_and_item)
    THEN Raised("ValueError")
    ELSE Returned([topic |-> SubSeq(topic_and_item, 1, Len(topic_and_item) - 1),
                   item |-> Last(topic_and_item)])

InitExtract ==
    /\ MainInit /\ AccIdle /\ PubIdle
    /\ extract_arg \in ExtractInputs
    /\ extract_ret = <<>>
    /\ limits_arg = <<>>
    /\ limits_ret = <<>>
    /\ csv_rows = <<>>
    /\ row_i = 0
    /\ xml_topics = EmptyDict
    /\ hvac_topics = {}
    /\ printed = {}
    /\ load_exc = ""

\* topic, item = extract_topic_and_item(topic_and_item), by both functions.
extract_call ==
    /\ extract_arg # <<>>
    /\ extract_ret = <<>>
    /\ extract_ret' = <<[mir |-> mir_extract_topic_and_item(extract_arg),
                         xml |-> xml_extract_topic_and_item(extract_arg)]>>
    /\ UNCHANGED <<extract_arg, limits_arg, limits_ret, loadvars>>
    /\ UNCHANGED <<mainvars, accvars, pubvars>>

\* extract_topic_and_item(topic + "/" + item) for the pair just returned.
extract_again ==
    /\ Len(extract_ret) = 1
    /\ extract_ret[1].mir.exc = ""
    /\ LET again == extract_ret[1].mir.topic \o <<extract_ret[1].mir.item>>
       IN  extract_ret' = Append(extract_ret,
                                 [mir |-> mir_extract_topic_and_item(again),
                                  xml |-> xml_extract_topic_and_item(again)])
    /\ UNCHANGED <<extract_arg, limits_arg, limits_ret, loadvars>>
    /\ UNCHANGED <<mainvars, accvars, pubvars>>

NextExtract ==
    \/ extract_call
    \/ extract_again

SpecExtract == InitExtract /\ [][NextExtract]_vars

(***************************************************************************)
(* parse_limits applied to the strings of the limits column.  A string is  *)
(* a record of its parts: "N" (shape number), "N<sep>M<suffix>" (shape     *)
(* range) or any other text (shape text); deg stands for the degree sign.  *)
(* Limits are numbers with one decimal, counted in tenths.                 *)
(***************************************************************************)
Fixed(n) == 10 * n

DEFAULT_LOWER_LIMIT == Fixed(-9999)
DEFAULT_UPPER_LIMIT == Fixed(9999)

\* The alternatives of group 2 and group 4 of the regular expression of
\* utils.parse_limits.
utils_separators ==
    {"/", " a ", "% a ", " % a ", "degC a ", " bar a ", "%RH a ", " LPM a ",
     " PSI a ", " KW a ", " ppm a "}
utils_suffixes ==
    {"", "%", " %", "degC", " degC", " bar", " hr", "%RH", " LPM", " PSI", " KW",
     " ppm", " Hz"}
utils_lists == {"1,2,3,4,5,6,7,8", "1,2,3,4,5,6", "1,2,3,4,5", "1,2,3"}

\* The same for MqttInfoReader._parse_limits.
mir_separators == utils_separators \ {" ppm a "}
mir_suffixes == utils_suffixes \ {" ppm", " Hz"}
mir_lists == {"1,2,3,4,5,6,7,8", "1,2,3,4,5,6"}

LimitNumbers == {-10, 0, 5, 20}
LimitTexts ==
    utils_lists \cup {"1,2,3,4", "true o false", "-", "", "true", "N/A", "bar"}

NumberString(n) == [shape |-> "number", lower |-> n, sep |-> "", upper |-> 0,
                    suffix |-> "", text |-> ""]
RangeString(n, sep, m, suffix) ==
    [shape |-> "range", lower |-> n, sep |-> sep, upper |-> m, suffix |-> suffix,
     text |-> ""]
TextString(t) == [shape |-> "text", lower |-> 0, sep |-> "", upper |-> 0,
                  suffix |-> "", text |-> t]

\* "bar" in limits_string, "PSI" in limits_string
has_bar(limits_string) ==
    \/ limits_string.sep = " bar a "
    \/ limits_string.suffix = " bar"
    \/ limits_string.text = "bar"
has_psi(limits_string) ==
    \/ limits_string.sep = " PSI a "
    \/ limits_string.suffix = " PSI"

\* The strings handed to parse_limits.  Strings that name both bar and PSI
\* are left out: their values, converted twice, exceed 32-bit integers.
LimitStrings ==
    {NumberString(n) : n \in {-1, 0, 7, 12}}
        \cup {TextString(t) : t \in LimitTexts}
        \cup {r \in {RangeString(n, sep, m, suffix) :
                        n \in LimitNumbers, m \in LimitNumbers,
                        sep \in utils_separators \cup {" Hz a ", " - "},
                        suffix \in utils_suffixes \cup {" m3/h"}} :
                 ~(has_bar(r) /\ has_psi(r))}

\* round(bar_to_pa(value), 1)
bar_to_pa_rounded(value) == value * 100000

\* round(psi_to_pa(value), 1): one psi is 6894.757293 Pa.
psi_to_pa_rounded(value) ==
    value * 6894 + ((value * 757293 + 500000) \div 1000000)

\* re.match of the range expression.
range_match(limits_string, separators, suffixes) ==
    /\ limits_string.shape = "range"
    /\ limits_string.sep \in separators
    /\ limits_string.suffix \in suffixes

\* re.match(r"^\d$", limits_string)
digit_match(limits_string) ==
    /\ limits_string.shape = "number"
    /\ limits_string.lower \in 0..9

\* limits_string in ["true o false", "-", "-1", ""]
is_sentinel(limits_string) ==
    \/ limits_string.shape = "text" /\ limits_string.text \in {"true o false", "-", ""}
    \/ limits_string.shape = "number" /\ limits_string.lower = -1

\* The lower and upper limit of an enumerated list.
list_limits(text) ==
    CASE text = "1,2,3,4,5,6,7,8" -> <<Fixed(1), Fixed(8)>>
      [] text = "1,2,3,4,5,6" -> <<Fixed(1), Fixed(6)>>
      [] text = "1,2,3,4,5" -> <<Fixed(1), Fixed(5)>>
      [] text = "1,2,3" -> <<Fixed(1), Fixed(3)>>

LimitsRaised(exc) == [exc |-> exc, lower |-> 0, upper |-> 0]
LimitsReturned(lower, upper) == [exc |-> "", lower |-> lower, upper |-> upper]

\* The conversion of non-standard units at the end of parse_limits.
convert_limits(limits_string, limits) ==
    LET in_pa(v) == IF has_bar(limits_string) THEN bar_to_pa_rounded(v) ELSE v
        out(v) == IF has_psi(limits_string) THEN psi_to_pa_rounded(in_pa(v)) ELSE in_pa(v)
    IN  LimitsReturned(out(limits[1]), out(limits[2]))

\* The chain of comparisons shared by both functions.
match_limits(limits_string, separators, suffixes, lists) ==
    IF range_match(limits_string, separators, suffixes)
    THEN convert_limits(limits_string,
                        <<Fixed(limits_string.lower), Fixed(limits_string.upper)>>)
    ELSE IF digit_match(limits_string)
    THEN convert_limits(limits_string, <<Fixed(0), Fixed(100)>>)
    ELSE IF limits_string.shape = "text" /\ limits_string.text \in lists
    THEN convert_limits(limits_string, list_limits(limits_string.text))
    ELSE IF is_sentinel(limits_string)
    THEN convert_limits(limits_string, <<DEFAULT_LOWER_LIMIT, DEFAULT_UPPER_LIMIT>>)
    ELSE LimitsRaised("ValueError")

\* A parse_limits that falls back to the default limits.
parse_limits_lenient(limits_string) ==
    LET r == match_limits(limits_string, utils_separators, utils_suffixes, utils_lists)
    IN  IF r.exc = "" THEN r
        ELSE LimitsReturned(DEFAULT_LOWER_LIMIT, DEFAULT_UPPER_LIMIT)

\* utils.parse_limits
parse_limits(limits_string) ==
    match_limits(limits_string, utils_separators, utils_suffixes, utils_lists)

\* MqttInfoReader._parse_limits
mir_parse_limits(limits_string) ==
    match_limits(limits_string, mir_separators, mir_suffixes, mir_lists)

InitLimits ==
    /\ MainInit /\ AccIdle /\ PubIdle
    /\ extract_arg = <<>>
    /\ extract_ret = <<>>
    /\ limits_arg \in LimitStrings
    /\ limits_ret = <<>>
    /\ csv_rows = <<>>
    /\ row_i = 0
    /\ xml_topics = EmptyDict
    /\ hvac_topics = {}
    /\ printed = {}
    /\ load_exc = ""

\* limits = parse_limits(limits_string), by both functions.
parse_limits_call ==
    /\ limits_arg # <<>>
    /\ limits_ret = <<>>
    /\ limits_ret' = <<[utils |-> parse_limits(limits_arg),
                        mir |-> mir_parse_limits(limits_arg)]>>
    /\ UNCHANGED <<extract_arg, extract_ret, limits_arg, loadvars>>
    /\ UNCHANGED <<mainvars, accvars, pubvars>>

NextLimits == parse_limits_call

SpecLimits == InitLimits /\ [][NextLimits]_vars

(***************************************************************************)
(* The catalog load of MqttInfoReader: _collect_topics_and_items hands the *)
(* READ rows, sorted by wire topic, to _generic_collect_topics_and_items.  *)
(* The branch of the Spanish XML is modelled: the topic enumeration is     *)
(* HvacTopic and no item is renamed.                                       *)
(***************************************************************************)
\* The wire topics a description file may hold, in sorted order: known
\* devices with known and unknown items, an unknown device and a string
\* without a slash.
CsvRowOrder ==
    <<CHILLER_01 \o <<"COMANDO_ENCENDIDO">>,
      CHILLER_01 \o <<"NOT_AN_ITEM">>,
      CHILLER_02 \o <<"SETPOINT_ACTIVO">>,
      DYNALENE \o <<"Safeties", "DynTankLevelOK">>,
      <<"LSST", "PISO09", "UNKNOWN_01", "ESTADO_FUNCIONAMIENTO">>,
      <<"STRING_WITHOUT_FORWARD_SLASH">> >>

\* sorted(topics.keys()) for the rows chosen.
sorted_keys(chosen) ==
    LET F[k \in 0..Len(CsvRowOrder)] ==
            IF k = 0 THEN <<>>
            ELSE IF k \in chosen THEN Append(F[k - 1], CsvRowOrder[k]) ELSE F[k - 1]
    IN  F[Len(CsvRowOrder)]

\* The values of the items enumeration handed to the load.
TelemetryItem == UNION {TelemetryItems(d) : d \in Devices}

\* hvac_topic.value in topic, for strings made of whole path segments.
value_in_topic(value, topic) ==
    \E k \in 0..(Len(topic) - Len(value)) : SubSeq(topic, k + 1, k + Len(value)) = value

\* _generic_collect_topics_and_items for one row: the exception raised, the
\* topics dictionary and the index it leaves, and whether it printed.
generic_collect_topics_and_items(topic_and_item, topics, indexed) ==
    IF extract_raises(topic_and_item)
    THEN [exc |-> "ValueError", topics |-> topics, hvac_topics |-> indexed,
          printed |-> FALSE]
    ELSE LET ti == extract_topic_and_item(topic_and_item)
             matching == {v \in HvacTopic : value_in_topic(v, ti.topic)}
             found == ti.item \in TelemetryItem
         IN  [exc |-> "",
              topics |-> [v \in DOMAIN topics \cup matching |->
                            LET old == IF v \in DOMAIN topics THEN topics[v] ELSE {}
                            IN  IF v \in matching /\ found
                                THEN old \cup {ti.item} ELSE old],
              hvac_topics |-> IF matching # {} /\ found
                              THEN indexed \cup {topic_and_item} ELSE indexed,
              printed |-> matching # {} /\ ~found]

InitLoad ==
    /\ MainInit /\ AccIdle /\ PubIdle
    /\ extract_arg = <<>>
    /\ extract_ret = <<>>
    /\ limits_arg = <<>>
    /\ limits_ret = <<>>
    /\ \E chosen \in SUBSET (1..Len(CsvRowOrder)) : csv_rows = sorted_keys(chosen)
    /\ row_i = 0
    /\ xml_topics = EmptyDict
    /\ hvac_topics = {}
    /\ printed = {}
    /\ load_exc = ""

\* One iteration of the loop of _collect_topics_and_items.
collect_row ==
    /\ load_exc = ""
    /\ row_i < Len(csv_rows)
    /\ LET r == generic_collect_topics_and_items(csv_rows[row_i + 1], xml_topics,
                                                 hvac_topics)
       IN  /\ load_exc' = r.exc
           /\ xml_topics' = r.topics
           /\ hvac_topics' = r.hvac_topics
           /\ printed' = IF r.printed THEN printed \cup {csv_rows[row_i + 1]} ELSE printed
           /\ row_i' = IF r.exc = "" THEN row_i + 1 ELSE row_i
    /\ UNCHANGED <<extract_arg, extract_ret, limits_arg, limits_ret, csv_rows>>
    /\ UNCHANGED <<mainvars, accvars, pubvars>>

NextLoad == collect_row

SpecLoad == InitLoad /\ [][NextLoad]_vars

(***************************************************************************)
(* One retain-last InternalItemState, recorded and consumed in any order.  *)
(***************************************************************************)
Values == {PyTrue, PyFalse, Num(1), Num(2)}

\* item_state.recent_values.append(payload)
AccAppend(v) ==
    /\ Len(acc) < MaxLen
    /\ acc' = Append(acc, v)
    /\ acc_returned' = <<>>
    /\ acc_last' = v
    /\ UNCHANGED <<statvars, mainvars, pubvars, catvars>>

\* get_most_recent_value()
AccConsume ==
    /\ Len(acc_returned) < MaxLen
    /\ acc' = get_most_recent_value(acc).recent_values
    /\ acc_returned' = Append(acc_returned, get_most_recent_value(acc).value)
    /\ UNCHANGED <<acc_last, statvars, mainvars, pubvars, catvars>>

\* A cycle without data: forget the calls recorded so far.
AccForget ==
    /\ Len(acc_returned) = MaxLen
    /\ acc_returned' = <<>>
    /\ UNCHANGED <<acc, acc_last, statvars, mainvars, pubvars, catvars>>

NextAccumulator ==
    \/ \E v \in Values : AccAppend(v)
    \/ AccConsume
    \/ AccForget

SpecAccumulator == Init /\ [][NextAccumulator]_vars

(***************************************************************************)
(* The earlier revision (hvac_csc.py): medians of the float items, the     *)
(* most recent value of the others, and accumulators that are cleared by   *)
(* every consume.                                                          *)
(***************************************************************************)
\* A float that is a whole number of halves: Half(n) is n / 2.
Half(n) == <<"half", n>>

\* The messages of the one topic.
InboundStat ==
    { [item |-> "COMANDO_ENCENDIDO", payload |-> p] : p \in {"true", "false"} }
    \cup { [item |-> "SETPOINT_ACTIVO", payload |-> p] : p \in {"1", "2"} }

\* sorted(values), by insertion.
RECURSIVE Insert(_, _)
Insert(sorted, n) ==
    IF sorted = <<>> THEN <<n>>
    ELSE IF n <= Head(sorted) THEN <<n>> \o sorted
    ELSE <<Head(sorted)>> \o Insert(Tail(sorted), n)

RECURSIVE Sorted(_)
Sorted(ns) == IF ns = <<>> THEN <<>> ELSE Insert(Sorted(Tail(ns)), Head(ns))

\* np.median(recent_values): the middle of the sorted values, the mean of
\* the two middle ones for an even count; booleans count as 0 and 1.
np_median(recent_values) ==
    LET ns == Sorted([i \in 1..Len(recent_values) |-> recent_values[i][2]])
        n == Len(ns)
    IN  IF n % 2 = 1 THEN Half(2 * ns[(n + 1) \div 2])
        ELSE Half(ns[n \div 2] + ns[n \div 2 + 1])

\* A data type test that holds for every item.
is_float_always(data_type) == TRUE

\* InternalItemState.is_float
is_float(data_type) == data_type = "float"

\* A reset that keeps the last value, as the later revision does.
hvac_csc_get_and_reset_recent_keep(recent_values) ==
    IF recent_values = <<>> THEN <<>> ELSE <<Last(recent_values)>>

\* _get_and_reset_recent: what it leaves in self.recent_values.
hvac_csc_get_and_reset_recent(recent_values) == <<>>

\* hvac_csc.py get_most_recent_value
hvac_csc_get_most_recent_value(recent_values) ==
    [value |-> IF recent_values = <<>> THEN None ELSE Last(recent_values),
     recent_values |-> hvac_csc_get_and_reset_recent(recent_values)]

\* compute_recent_median
compute_recent_median(recent_values) ==
    [value |-> IF recent_values = <<>> THEN None ELSE np_median(recent_values),
     recent_values |-> hvac_csc_get_and_reset_recent(recent_values)]

\* _handle_mqtt_messages of the earlier revision: every message of the queue
\* is popped from the left and its decoded payload is appended.
RECURSIVE hvac_csc_handle_mqtt_messages(_, _)
hvac_csc_handle_mqtt_messages(hs, q) ==
    IF Len(q) = 0 THEN hs
    ELSE LET msg == Head(q)
             value == decode_payload(msg.payload)
         IN  hvac_csc_handle_mqtt_messages(
                 [hs EXCEPT ![msg.item].recent_values = Append(@, value)], Tail(q))

\* TelemetryItem(item).name in hvac_enums.py.
TelemetryItemName(item) ==
    CASE item = "COMANDO_ENCENDIDO" -> "comandoEncendido"
      [] item = "SETPOINT_ACTIVO" -> "setpointActivo"

\* One item in _compute_statistics_and_send_telemetry.
compute_item(info) ==
    IF is_float(info.data_type)
    THEN [method |-> "compute_recent_median",
          result |-> compute_recent_median(info.recent_values)]
    ELSE [method |-> "get_most_recent_value",
          result |-> hvac_csc_get_most_recent_value(info.recent_values)]

\* _compute_statistics_and_send_telemetry for the one topic: the state it
\* leaves, the data dictionary and whether set_put was called.
compute_statistics_and_send_telemetry(hs) ==
    LET reporting == {item \in DOMAIN hs : compute_item(hs[item]).result.value # None}
        data == [name \in {TelemetryItemName(item) : item \in reporting} |->
                    LET item == CHOOSE i \in reporting : TelemetryItemName(i) = name
                    IN  compute_item(hs[item]).result.value]
    IN  [hvac_state |-> [item \in DOMAIN hs |->
                            [hs[item] EXCEPT !.recent_values =
                                 compute_item(hs[item]).result.recent_values]],
         method |-> [item \in DOMAIN hs |-> compute_item(hs[item]).method],
         value |-> [item \in DOMAIN hs |-> compute_item(hs[item]).result.value],
         data |-> data,
         put |-> data # EmptyDict]

\* on_message of the earlier revision.
hvac_csc_on_message(m) ==
    /\ Len(stat_msgs) < MaxQueue
    /\ stat_msgs' = Append(stat_msgs, m)
    /\ UNCHANGED <<stat_state, stat_cycle, stat_before>>
    /\ UNCHANGED <<acc, acc_returned, acc_last, mainvars, pubvars, catvars>>

\* publish_telemetry of the earlier revision: _handle_mqtt_messages, then
\* _compute_statistics_and_send_telemetry.
hvac_csc_publish_telemetry ==
    LET drained == hvac_csc_handle_mqtt_messages(stat_state, stat_msgs)
        r == compute_statistics_and_send_telemetry(drained)
    IN  /\ stat_msgs' = <<>>
        /\ stat_state' = r.hvac_state
        /\ stat_cycle' = [ran |-> TRUE,
                          drained |-> Len(stat_msgs),
                          input |-> [item \in StatItems |-> drained[item].recent_values],
                          method |-> r.method,
                          value |-> r.value,
                          put |-> r.put,
                          data |-> r.data]
        /\ stat_before' = IF stat_cycle.ran
                          THEN {item \in StatItems : stat_cycle.input[item] # <<>>}
                          ELSE {}
        /\ UNCHANGED <<acc, acc_returned, acc_last, mainvars, pubvars, catvars>>

NextStatistics ==
    \/ \E m \in InboundStat : hvac_csc_on_message(m)
    \/ hvac_csc_publish_telemetry

SpecStatistics == Init /\ [][NextStatistics]_vars

(***************************************************************************)
(* Properties of the telemetry pipeline.                                   *)
(***************************************************************************)
\* C1: the device_ids written to evt_deviceEnabled in a cycle is the sum of
\* 1 << index(d) over exactly the devices _get_topic_enabled_state reported
\* enabled in that cycle, each bit counted once.
C1_DeviceEnabledMask ==
    n_deviceEnabled > 0 =>
        device_ids = SumBits({d \in Devices : reported[d] = 1})

\* The bits of chiller01 and of the always enabled Dynalene make up the mask.
C1_Witness ==
    /\ pc = "sleep"
    /\ n_deviceEnabled = 1
    /\ reported[CHILLER_01] = 1
    /\ reported[CHILLER_02] = 0
    /\ reported[VEA_01] = 0
    /\ device_ids = 2 ^ 1 + 2 ^ 6

\* C2: when send_events assembles a configuration payload for a device, the
\* event is written if and only if the payload differs from the payload
\* assembled for that same device the previous time; devices of one family
\* do not interfere.
C2_ConfigDedup ==
    cfg_last.device # <<>> =>
        (cfg_last.written <=> ~DictEq(cfg_last.payload, cfg_last.previous))

\* The same payload assembled again for chiller01: nothing is written.
C2_Witness ==
    /\ cfg_last.device = CHILLER_01
    /\ DOMAIN cfg_last.previous # {}
    /\ DictEq(cfg_last.payload, cfg_last.previous)
    /\ ~cfg_last.written

\* A changed field for chiller01: one more event is written.
C2_WitnessChanged ==
    /\ cfg_last.device = CHILLER_01
    /\ DOMAIN cfg_last.previous # {}
    /\ ~DictEq(cfg_last.payload, cfg_last.previous)
    /\ cfg_last.written

\* C4: _send_telemetry runs only when no message that was queued at the
\* start of the cycle is still in mqtt_client.msgs.
C4_DrainBeforeSend ==
    pc \in {"send", "mask", "sleep"} => ~AnyOld(msgs)

\* A cycle that started with a full queue reached _send_telemetry.
C4_Witness ==
    /\ pc = "send"
    /\ popped_old = MaxQueue

\* C5: every cycle whose ingestion finished ends with exactly one write of
\* evt_deviceEnabled, whatever the devices have reported.
C5_HeartbeatEveryCycle ==
    (pc = "sleep" \/ (pc = "done" /\ ended_at = "send")) => n_deviceEnabled = 1

\* C8: an exception other than cancellation that ends the task calls
\* fault(-1) and leaves the CSC in FAULT, and a task that ended runs no
\* further cycle.
C8_FaultOnException ==
    [][/\ (last_exc' # last_exc /\ last_exc' \notin {"none", "CancelledError"}) =>
              (summary_state' = "FAULT" /\ errorCode' = -1 /\ pc' = "done")
       /\ pc = "done" =>
              (pc' = "done" \/ (pc' = "created" /\ lifecycle = "end_enable"))]_vars

\* send_events raised KeyError and the CSC is in FAULT.
C8_Witness ==
    /\ last_exc = "KeyError"
    /\ pc = "done"
    /\ summary_state = "FAULT"
    /\ errorCode = -1

\* C9: the step that cancels the telemetry task calls no fault and leaves
\* the summary state alone, wherever the task was suspended.
C9_CancelIsNormalExit ==
    [][(pc # "cancelled" /\ pc' = "cancelled") =>
           (errorCode' = errorCode /\ summary_state' = summary_state)]_vars

\* The task was cancelled inside the cycle body.
C9_Witness ==
    /\ pc = "cancelled"
    /\ ended_at = "send"
    /\ last_exc = "CancelledError"
    /\ summary_state = "DISABLED"
    /\ errorCode = 0

\* The task was cancelled in its sleep.
C9_WitnessSleep ==
    /\ pc = "cancelled"
    /\ ended_at = "sleep"
    /\ summary_state = "DISABLED"

(***************************************************************************)
(* Properties of the ingestion of unknown messages.                        *)
(***************************************************************************)
\* The message has a decodable payload and its wire topic does not resolve
\* to a (device, item) pair of hvac_state.
Unresolved(msg) ==
    /\ decode_payload(msg.payload) # None
    /\ \/ extract_raises(msg.topic)
       \/ extract_topic_and_item(msg.topic).topic \notin DOMAIN hvac_state
       \/ extract_topic_and_item(msg.topic).item \notin
              DOMAIN hvac_state[extract_topic_and_item(msg.topic).topic]

\* C3: processing a message that does not resolve to a (device, item) pair
\* of hvac_state raises nothing and leaves hvac_state unchanged.
C3_UnknownIsDiscarded ==
    [][(pc = "handle" /\ msgs # <<>> /\ msgs' = Tail(msgs) /\ Unresolved(Head(msgs))) =>
           (/\ hvac_state' = hvac_state
            /\ pc' = "handle"
            /\ last_exc' = last_exc
            /\ summary_state' = summary_state)]_vars

(***************************************************************************)
(* Properties of the command handlers.                                     *)
(***************************************************************************)
\* C6: the cycle after an enableDevice or disableDevice whose publish
\* succeeded, with no device message for the enabling item in between,
\* reports the commanded value in the mask and, where the telemetry record
\* of the cycle has the field, in the telemetry.
C6_CommandSeedsState ==
    \A d \in Devices :
        (pc = "sleep" /\ n_deviceEnabled = 1 /\ cmd_seed[d] \in {"cycle_on", "cycle_off"}) =>
            LET on == cmd_seed[d] = "cycle_on"
                field == TelemetryItemEnglish(EnablingItem(d))
            IN  /\ Bit(device_ids, device_id_index(d)) = (IF on THEN 1 ELSE 0)
                /\ field \in DOMAIN tel[d] => Truthy(tel[d][field]) = on

\* C10: a command handler that returns normally had every message it
\* handed to the transport acknowledged.
C10_PublishFailureSurfaced ==
    cmd_last.outcome = "ok" =>
        \A i \in 1..Len(cmd_last.published) : cmd_last.published[i].ack

(***************************************************************************)
(* Properties of the accumulator.                                          *)
(***************************************************************************)
\* C7: two consecutive calls of get_most_recent_value return the same value,
\* the value appended last or None when nothing was appended, and after a
\* call the accumulator holds at most the value just returned.
C7_RetainLast ==
    /\ \A i \in 1..Len(acc_returned) : acc_returned[i] = acc_last
    /\ Len(acc_returned) > 0 =>
           /\ Len(acc) <= 1
           /\ acc = <<>> => Last(acc_returned) = None
           /\ acc # <<>> => acc[1] = Last(acc_returned)

\* Two calls after the last of MaxLen appends returned the same value.
C7_Witness ==
    /\ Len(acc_returned) >= 2
    /\ acc_returned[1] = Num(2)
    /\ acc_returned[2] = Num(2)
    /\ acc = <<Num(2)>>

\* Two calls without any append returned None.
C7_WitnessNone ==
    /\ Len(acc_returned) >= 2
    /\ acc_last = None
    /\ acc_returned[2] = None

(***************************************************************************)
(* C11: in every summary state other than ENABLED a command (enableDevice, *)
(* disableDevice, config<Family>, Dynalene) is rejected by assert_enabled  *)
(* before any publish: no message is handed to the transport, no echo is   *)
(* written and hvac_state and event_data are unchanged.                    *)
(***************************************************************************)
C11_RejectedOutsideEnabled ==
    [][(cmd_last' # cmd_last /\ summary_state # "ENABLED")
         => /\ cmd_last'.outcome = "rejected"
            /\ cmd_last'.published = <<>>
            /\ ~cmd_last'.echo
            /\ hvac_state' = hvac_state
            /\ event_data' = event_data]_vars

\* A config command was rejected in FAULT, with the state store populated.
C11_Witness ==
    /\ summary_state = "FAULT"
    /\ hvac_state # EmptyDict
    /\ cmd_last.cmd = "config"
    /\ cmd_last.outcome = "rejected"

(***************************************************************************)
(* C12: _do_config for device d publishes exactly one message              *)
(* <topic(d)>/<item> = value for each command item of d other than the     *)
(* switch item whose value is not NaN, and nothing for NaN-valued fields   *)
(* or for the switch item COMANDO_ENCENDIDO_LSST.                          *)
(***************************************************************************)
C12_ConfigPublishes ==
    (cmd_last.cmd = "config" /\ cmd_last.outcome = "ok") =>
        LET d == cmd_last.device
            pub == cmd_last.published
            to(item) == {k \in DOMAIN pub : pub[k].topic = Wire(d, item)}
        IN  /\ \A item \in CommandItems(d) \ {"COMANDO_ENCENDIDO_LSST"} :
                   LET value == cmd_last.data[CommandItemEnglish(item)]
                   IN  IF value = NaN
                       THEN to(item) = {}
                       ELSE /\ Cardinality(to(item)) = 1
                            /\ \A k \in to(item) : pub[k].payload = value
            /\ to("COMANDO_ENCENDIDO_LSST") = {}
            /\ \A k \in DOMAIN pub : \E item \in CommandItems(d) : k \in to(item)

\* A two-field configuration with one NaN field went out as one message.
C12_Witness ==
    /\ cmd_last.cmd = "config"
    /\ cmd_last.outcome = "ok"
    /\ cmd_last.device = MANEJADORA_LOWER_01
    /\ cmd_last.data["workingSetpoint"] = NaN
    /\ cmd_last.data["minFanSetpoint"] = Num(1)
    /\ Len(cmd_last.published) = 1
    /\ cmd_last.published[1].topic = Wire(MANEJADORA_LOWER_01, "SETPOINT_VENTILADOR_MIN_LSST")

C13_WitnessEcho ==
    /\ cmd_last.cmd = "dynTmaRemoteSP"
    /\ cmd_last.published # <<>>
    /\ cmd_last.published[1].ack
    /\ cmd_last.echo

(***************************************************************************)
(* C14: when the three grouped tank-level messages (OK, Warning, Alarm) of *)
(* one report are ingested, exactly one with payload true and the other    *)
(* two false, in any arrival order, the last tank-level event state        *)
(* written is the DynaleneTankLevel ordinal of the topic whose payload was *)
(* true; a false payload produces no severity of its own.                  *)
(***************************************************************************)
TankLevelOf(item) ==
    CASE item = "DynTankLevelOK" -> "OK"
      [] item = "DynTankLevelWarning" -> "Warning"
      [] item = "DynTankLevelAlarm" -> "Alarm"

C14_TankLevelOfReport ==
    LET tank == SelectSeq(evt_log, LAMBDA e : e.event = "evt_dynaleneTankLevel")
        true == {k \in DOMAIN tank : tank[k].payload = PyTrue}
    IN  ( /\ Len(tank) = 3
          /\ {tank[k].item : k \in DOMAIN tank} =
                 {"DynTankLevelOK", "DynTankLevelWarning", "DynTankLevelAlarm"}
          /\ Cardinality(true) = 1
          /\ \A k \in DOMAIN tank \ true : tank[k].payload = PyFalse )
        => \A k \in true : Last(tank).state = DynaleneTankLevel(TankLevelOf(tank[k].item))

(***************************************************************************)
(* C15: for the Dynalene ON/OFF alarm-monitor pair, a message on the ON    *)
(* topic yields an alarm value equal to its boolean payload and a message  *)
(* on the OFF topic the negation of its payload, so a consistent pair      *)
(* (ON = not OFF) yields the same alarm value whichever comes last.        *)
(***************************************************************************)
C15_AlarmMonitorPolarity ==
    LET mon == SelectSeq(evt_log, LAMBDA e : e.event = "evt_dynTAalarmMonitor")
    IN  /\ \A k \in DOMAIN mon :
               /\ mon[k].item = "DynTAalarmMonitorON"
                      => mon[k].state = (IF mon[k].payload = PyTrue THEN 1 ELSE 0)
               /\ mon[k].item = "DynTAalarmMonitorOFF"
                      => mon[k].state = (IF mon[k].payload = PyTrue THEN 0 ELSE 1)
        /\ \A i, j \in DOMAIN mon :
               ( /\ mon[i].item = "DynTAalarmMonitorON"
                 /\ mon[j].item = "DynTAalarmMonitorOFF"
                 /\ mon[i].payload # mon[j].payload )
               => mon[i].state = mon[j].state

\* An active alarm reported as ON = true and then OFF = false.
C15_Witness ==
    /\ Len(evt_log) = 2
    /\ evt_log[1].item = "DynTAalarmMonitorON" /\ evt_log[1].payload = PyTrue
    /\ evt_log[2].item = "DynTAalarmMonitorOFF" /\ evt_log[2].payload = PyFalse
    /\ evt_log[1].event = "evt_dynTAalarmMonitor"
    /\ evt_log[2].event = "evt_dynTAalarmMonitor"
    /\ evt_log[1].state = 1
    /\ evt_log[2].state = 1

\* A cleared alarm reported as OFF = true and then ON = false.
C15_WitnessCleared ==
    /\ Len(evt_log) = 2
    /\ evt_log[1].item = "DynTAalarmMonitorOFF" /\ evt_log[1].payload = PyTrue
    /\ evt_log[2].item = "DynTAalarmMonitorON" /\ evt_log[2].payload = PyFalse
    /\ evt_log[1].state = 0
    /\ evt_log[2].state = 0

(***************************************************************************)
(* C16: the flush at the end of an ingestion pass writes the buffered      *)
(* fields of a discrete event only if at least one of its fields was       *)
(* received during this pass; a buffer not touched since the previous      *)
(* flush is not written again in later cycles.                             *)
(***************************************************************************)
C16_FlushOnlyTouched == flushed \subseteq touched

(***************************************************************************)
(* C17: a message destined for a discrete event is never appended to an    *)
(* accumulator of hvac_state, and the event it feeds is not written while  *)
(* the inbound queue is being drained: only the flush after the loop       *)
(* writes it.                                                              *)
(***************************************************************************)
DestinedForEvent(m) ==
    /\ ~extract_raises(m.topic)
    /\ \/ EventItem(extract_topic_and_item(m.topic).item) # ""
       \/ EVENT_TOPIC_DICT(dynalene_group(m.topic, None).topic_and_item) # ""

C17_EventsOnlyAtFlush ==
    [][( /\ pc = "handle"
         /\ msgs # <<>>
         /\ msgs' = Tail(msgs)
         /\ DestinedForEvent(Head(msgs)) )
       => /\ hvac_state' = hvac_state
          /\ evt_log' = evt_log]_vars

(***************************************************************************)
(* C18: a message whose payload is neither a recognised literal string nor *)
(* valid JSON is dropped: the loop does not raise, hvac_state and          *)
(* event_data are unchanged, and the messages behind it stay queued for    *)
(* the same pass, which goes on.                                           *)
(***************************************************************************)
C18_UndecodableIsDropped ==
    [][( /\ pc = "handle"
         /\ msgs # <<>>
         /\ msgs' = Tail(msgs)
         /\ decode_payload(Head(msgs).payload) = None )
       => /\ pc' = "handle"
          /\ last_exc' = last_exc
          /\ summary_state' = summary_state
          /\ hvac_state' = hvac_state
          /\ event_data' = event_data]_vars

(***************************************************************************)
(* C19: in every deviceEnabled mask that is published, the bit of every    *)
(* device of TOPICS_ALWAYS_ENABLED is set, whatever messages have or have  *)
(* not been received for that device.                                      *)
(***************************************************************************)
C19_AlwaysEnabledBit ==
    n_deviceEnabled > 0 =>
        \A d \in TOPICS_ALWAYS_ENABLED \cap Devices :
            Bit(device_ids, device_id_index(d)) = 1

\* The mask was published in a session without any message for the Dynalene.
C19_Witness ==
    /\ n_deviceEnabled = 1
    /\ arrived = 0
    /\ \A i \in DOMAIN hvac_state[DYNALENE] : hvac_state[DYNALENE][i].recent_values = <<>>
    /\ Bit(device_ids, device_id_index(DYNALENE)) = 1

\* The mask was published in a cycle that carried Dynalene telemetry.
C19_WitnessTelemetry ==
    /\ n_deviceEnabled = 1
    /\ tel[DYNALENE] # EmptyDict
    /\ Bit(device_ids, device_id_index(DYNALENE)) = 1

(***************************************************************************)
(* C20: for a device outside the always-enabled set the enabled flag       *)
(* computed in a cycle is the most recent stored value of its enabling     *)
(* item, ESTADO_FUNCIONAMIENTO for the devices without COMANDO_ENCENDIDO   *)
(* echo and COMANDO_ENCENDIDO for the others, and false if that item was   *)
(* never reported in the session.                                          *)
(***************************************************************************)
C20_EnabledIsLastValue ==
    \A d \in Devices \ TOPICS_ALWAYS_ENABLED :
        reported[d] # -1 =>
            LET item == IF d \in TOPICS_WITHOUT_COMANDO_ENCENDIDO
                        THEN "ESTADO_FUNCIONAMIENTO" ELSE "COMANDO_ENCENDIDO"
                stored == hvac_state[d][item].recent_values
            IN  reported[d] = IF stored # <<>> /\ Truthy(Last(stored)) THEN 1 ELSE 0

\* A chiller whose last COMANDO_ENCENDIDO was false is reported disabled, a
\* chiller that never reported is disabled, and the air handler is enabled
\* through its working state.
C20_Witness ==
    /\ reported[CHILLER_01] = 0
    /\ hvac_state[CHILLER_01]["COMANDO_ENCENDIDO"].recent_values = <<PyFalse>>
    /\ reported[CHILLER_02] = 0
    /\ hvac_state[CHILLER_02]["COMANDO_ENCENDIDO"].recent_values = <<>>
    /\ reported[MANEJADORA_LOWER_01] = 1
    /\ hvac_state[MANEJADORA_LOWER_01]["ESTADO_FUNCIONAMIENTO"].recent_values = <<PyTrue>>

(***************************************************************************)
(* Properties of the telemetry topics.                                     *)
(***************************************************************************)
\* C21: the telemetry topic of a device is written in a cycle if and only if
\* at least one of its items yields a value that is not None in that cycle;
\* a device none of whose items has been reported is never written.
C21_TelemetryIffData ==
    hvac_state # EmptyDict =>
        \A d \in Devices :
            LET reporting == {item \in DOMAIN hvac_state[d] :
                                  hvac_state[d][item].recent_values # <<>>}
            IN  /\ reported[d] # -1 =>
                       /\ d \in tel_written <=> reporting # {}
                       /\ DOMAIN tel[d] = {TelemetryItemEnglish(item) : item \in reporting}
                /\ reporting = {} => d \notin tel_written

\* A cycle that wrote the telemetry of the first chiller and visited the
\* second chiller, which never reported, without writing it.
C21_Witness ==
    /\ CHILLER_01 \in tel_written
    /\ reported[CHILLER_02] # -1
    /\ CHILLER_02 \notin tel_written

\* A cycle without new messages that wrote the retained value again.
C21_WitnessRetained ==
    /\ pc = "sleep"
    /\ arrived = 1
    /\ msgs = <<>>
    /\ popped_old = 0
    /\ CHILLER_01 \in tel_written

C23_AckTableTracksWaiters ==
    DOMAIN pub_ack_events = {mid \in Mids : calls[mid].pc = "waiting"}

\* Two calls in flight, each with its entry.
C23_Witness == Cardinality(DOMAIN pub_ack_events) = 2

\* The table is empty again after one call returned by acknowledgement and
\* one by timeout, the acknowledgement of the latter arriving late.
C23_WitnessReturned ==
    /\ DOMAIN pub_ack_events = {}
    /\ \E m1, m2 \in Mids :
           /\ calls[m1].pc = "returned" /\ calls[m1].result
           /\ calls[m2].pc = "returned" /\ ~calls[m2].result /\ m2 \in acked

C24_WitnessBoth ==
    /\ popped_old = 2
    /\ processed = <<1, 2>>

(***************************************************************************)
(* Properties of extract_topic_and_item.                                   *)
(***************************************************************************)
\* C25: extract_topic_and_item is stable under re-concatenation: when it
\* returned (t, i) for a wire topic string, it returns (t, i) again for
\* t + "/" + i, with the Dynalene sub-paths collapsed to the Dynalene device
\* topic and the grouped Dynalene items replaced by their group name.
C25_ExtractStable ==
    Len(extract_ret) = 2 =>
        /\ extract_ret[2].mir = extract_ret[1].mir
        /\ extract_ret[1].mir.item =
               IF Last(extract_arg) \in DynaleneGroupItems
               THEN DYNALENE_EVENT_GROUP_DICT(Last(extract_arg))
               ELSE Last(extract_arg)
        /\ extract_ret[1].mir.topic \in
               {SubSeq(extract_arg, 1, Len(extract_arg) - 1), DYNALENE}

\* The pair of a grouped item below the Safeties sub-path was extracted
\* again from its re-concatenation.
C25_Witness ==
    /\ extract_arg = <<"LSST", "PISO05", "DYNALENE", "Safeties", "DynTankLevelAlarm">>
    /\ Len(extract_ret) = 2
    /\ extract_ret[2].mir = [exc |-> "", topic |-> DYNALENE, item |-> "DynTankLevel"]

\* C26: extract_topic_and_item raises ValueError for every string without a
\* forward slash and returns a (topic, item) pair for every string with at
\* least one, in the reader and in the XML generator alike.
C26_RaisesIffNoSlash ==
    \A k \in 1..Len(extract_ret) :
        LET arg == IF k = 1 THEN extract_arg
                   ELSE extract_ret[1].mir.topic \o <<extract_ret[1].mir.item>>
        IN  /\ extract_ret[k].mir.exc = "ValueError" <=> Len(arg) = 1
            /\ extract_ret[k].xml.exc = "ValueError" <=> Len(arg) = 1
            /\ extract_ret[k].mir.exc \in {"", "ValueError"}
            /\ extract_ret[k].xml.exc \in {"", "ValueError"}
            /\ Len(arg) > 1 =>
                   /\ extract_ret[k].mir.topic # <<>>
                   /\ extract_ret[k].xml.topic \o <<extract_ret[k].xml.item>> = arg

\* The call for a string without a slash raised.
C26_Witness ==
    /\ extract_arg = <<"STRING_WITHOUT_FORWARD_SLASH">>
    /\ Len(extract_ret) = 1
    /\ extract_ret[1].mir.exc = "ValueError"

\* The call for a string with several slashes returned a pair.
C26_WitnessReturned ==
    /\ extract_arg = CHILLER_01 \o <<"TEMPERATURA_AGUA_RETORNO_EVAPORADOR">>
    /\ Len(extract_ret) = 1
    /\ extract_ret[1].mir =
           [exc |-> "", topic |-> CHILLER_01, item |-> "TEMPERATURA_AGUA_RETORNO_EVAPORADOR"]

\* The result of the family lookup for every value of HvacTopic.
FamiliesOfTopic == [topic \in HvacTopic |-> command_groups(topic)]

(***************************************************************************)
(* C27: every device topic that is not in TOPICS_ALWAYS_ENABLED is a       *)
(* member of exactly one family list of DEVICE_GROUPS, so the lookup of    *)
(* send_events finds exactly one family for every device it assembles a    *)
(* configuration for, and never fails for lack of a family.                *)
(***************************************************************************)
C27_ExactlyOneFamily ==
    /\ \A topic \in HvacTopic \ TOPICS_ALWAYS_ENABLED :
           Len(FamiliesOfTopic[topic]) = 1
    /\ last_exc # "IndexError"
    /\ cfg_last # NoCfg =>
           /\ Len(command_groups(cfg_last.device)) = 1
           /\ event_data_key(cfg_last.device) \in DOMAIN event_data
           /\ \E i \in 1..Len(DEVICE_GROUPS[event_data_key(cfg_last.device)[1]]) :
                  DEVICE_GROUPS[event_data_key(cfg_last.device)[1]][i] = cfg_last.device

\* send_events assembled the configuration of the second chiller.
C27_Witness ==
    /\ cfg_last # NoCfg
    /\ cfg_last.device = CHILLER_02
    /\ event_data_key(CHILLER_02) = <<"CHILLER", 2>>

C28_WitnessRaised ==
    /\ limits_arg = TextString("1,2,3,4")
    /\ limits_ret # <<>>
    /\ limits_ret[1].utils.exc = "ValueError"

\* A single digit came back as a percentage range.
C28_WitnessDigit ==
    /\ limits_arg = NumberString(7)
    /\ limits_ret # <<>>
    /\ limits_ret[1].utils = LimitsReturned(Fixed(0), Fixed(100))

(***************************************************************************)
(* C29: the catalog load raises when the wire topic of a row matches no    *)
(* known device prefix: no such row is passed over with the load going on. *)
(***************************************************************************)
C29_UnknownPrefixRaises ==
    \A k \in 1..row_i :
        LET topic_and_item == csv_rows[k]
        IN  ~extract_raises(topic_and_item) =>
                \E v \in HvacTopic :
                    value_in_topic(v, extract_topic_and_item(topic_and_item).topic)

(***************************************************************************)
(* C30: a numeric payload p received on a wire topic of                    *)
(* TOPICS_WITH_DATA_IN_BAR is stored and published as p multiplied by      *)
(* 100000 (Pa), so 5.0 bar is published as 500000 after one cycle; a       *)
(* payload on a topic in neither pressure set is stored unconverted.       *)
(***************************************************************************)
C30_BarToPa ==
    /\ [][Len(processed') = Len(processed) + 1 =>
              LET m == Head(msgs)
                  p == decode_payload(m.payload)
                  ti == extract_topic_and_item(m.topic)
                  before == hvac_state[ti.topic][ti.item].recent_values
                  after == hvac_state'[ti.topic][ti.item].recent_values
              IN  ( /\ p[1] = "num"
                    /\ ti.topic \in DOMAIN hvac_state
                    /\ ti.item \in DOMAIN hvac_state[ti.topic] )
                  => /\ m.topic \in TOPICS_WITH_DATA_IN_BAR
                            => after = Append(before, Num(p[2] * 100000))
                     /\ m.topic \notin TOPICS_WITH_DATA_IN_BAR \cup TOPICS_WITH_DATA_IN_PSI
                            => after = Append(before, p)]_vars
    /\ [](\A d \in Devices :
             /\ "presionBajaCto1" \in DOMAIN tel[d]
                    => tel[d]["presionBajaCto1"] \in {Num(500000), Num(100000)}
             /\ "activeSetpoint" \in DOMAIN tel[d]
                    => tel[d]["activeSetpoint"] = Num(5))

\* A reading of 5.0 bar was published as 500000 Pa, next to a setpoint of
\* 5.0 that was published as it came.
C30_Witness ==
    /\ pc = "sleep"
    /\ "presionBajaCto1" \in DOMAIN tel[CHILLER_01]
    /\ tel[CHILLER_01]["presionBajaCto1"] = Num(500000)
    /\ CHILLER_01 \in tel_written

\* A setpoint of 5.0 was published unconverted.
C30_WitnessPlain ==
    /\ "activeSetpoint" \in DOMAIN tel[CHILLER_01]
    /\ tel[CHILLER_01]["activeSetpoint"] = Num(5)

(***************************************************************************)
(* C31: once an item of a device has been reported in a session, every     *)
(* later publish cycle of that session writes the telemetry record of that *)
(* device with the last reported value of the item, also when no new       *)
(* message for the item arrived.  A cycle of the session is over when the  *)
(* task sleeps or when it ended inside the device loop, the client still   *)
(* being connected.                                                        *)
(***************************************************************************)
C31_LastValuePersists ==
    (connected /\ (pc = "sleep" \/ (pc = "done" /\ ended_at = "send"))) =>
        \A d \in DOMAIN hvac_state :
            \A item \in DOMAIN hvac_state[d] :
                hvac_state[d][item].recent_values # <<>> =>
                    /\ d \in tel_written
                    /\ TelemetryItemEnglish(item) \in DOMAIN tel[d]
                    /\ tel[d][TelemetryItemEnglish(item)] =
                           Last(hvac_state[d][item].recent_values)

(***************************************************************************)
(* C32: the messages of one (device, item) drained in one ingestion pass   *)
(* are appended to the accumulator of the item in the order they are       *)
(* popped, and the device loop publishes for the item the value appended   *)
(* last and keeps only that value: the earlier values of the pass are      *)
(* dropped and never published.                                            *)
(***************************************************************************)
C32_LastOfPassPublished ==
    /\ [][Len(processed') = Len(processed) + 1 =>
              \A d \in Devices : \A item \in DOMAIN hvac_state[d] :
                  LET before == hvac_state[d][item].recent_values
                      after == hvac_state'[d][item].recent_values
                      m == Head(msgs)
                      g == dynalene_group(m.topic, decode_payload(m.payload))
                  IN  \/ after = before
                      \/ /\ Wire(d, item) = m.topic
                         /\ after = Append(before,
                                convert_payload(g.topic_and_item,
                                                translate_payload(g.payload)))]_vars
    /\ [][( /\ pc = "send"
            /\ dev_i <= Len(DeviceOrder)
            /\ reported[DeviceOrder[dev_i]] = -1
            /\ reported'[DeviceOrder[dev_i]] # -1 ) =>
              LET d == DeviceOrder[dev_i]
              IN  \A item \in DOMAIN hvac_state[d] :
                      LET before == hvac_state[d][item].recent_values
                      IN  before # <<>> =>
                            /\ TelemetryItemEnglish(item) \in DOMAIN tel'[d]
                            /\ tel'[d][TelemetryItemEnglish(item)] = Last(before)
                            /\ hvac_state'[d][item].recent_values = <<Last(before)>>]_vars

\* Two readings of one item, 5.0 bar and then 1 bar, were drained in one
\* pass and wait in the accumulator for the device loop.
C32_WitnessDrained ==
    /\ pc = "send"
    /\ dev_i = 1
    /\ popped_old = 2
    /\ hvac_state[CHILLER_01]["PRESION_BAJA_CTO1"].recent_values
           = <<Num(500000), Num(100000)>>

\* The cycle that drained two messages, both of the pressure item of
\* CHILLER_01, published the reading of 1 bar that came last and kept it.
C32_Witness ==
    /\ pc = "sleep"
    /\ popped_old = 2
    /\ Len(processed) = 2
    /\ tel[CHILLER_01] = ("presionBajaCto1" :> Num(100000))
    /\ tel[DYNALENE] = EmptyDict
    /\ hvac_state[CHILLER_01]["PRESION_BAJA_CTO1"].recent_values = <<Num(100000)>>

(***************************************************************************)
(* C33: the iteration of the device loop for a device that is computed as  *)
(* disabled, or for a device of TOPICS_WITHOUT_CONFIGURATION, writes no    *)
(* configuration event and leaves the configuration snapshots unchanged.   *)
(***************************************************************************)
C33_NoConfigWhenDisabled ==
    [][( /\ pc = "send"
         /\ dev_i <= Len(DeviceOrder)
         /\ reported[DeviceOrder[dev_i]] = -1
         /\ reported'[DeviceOrder[dev_i]] # -1 ) =>
           LET d == DeviceOrder[dev_i]
           IN  (reported'[d] = 0 \/ d \in TOPICS_WITHOUT_CONFIGURATION) =>
                   /\ cfg_last' = NoCfg
                   /\ event_data' = event_data
                   /\ assembled' = assembled]_vars

\* CHILLER_01 has a configuration snapshot of an earlier session; in this
\* cycle it reports its setpoint but is computed as disabled, and its
\* iteration wrote no configuration event.
C33_Witness ==
    /\ pc = "send"
    /\ dev_i = 2
    /\ reported[CHILLER_01] = 0
    /\ "activeSetpoint" \in DOMAIN tel[CHILLER_01]
    /\ event_data_key(CHILLER_01) \in DOMAIN event_data
    /\ cfg_last = NoCfg

\* The always enabled DYNALENE, a device without configuration, went
\* through the device loop after a chiller wrote its configuration.
C33_WitnessNoConfiguration ==
    /\ pc = "send"
    /\ dev_i = 4
    /\ reported[DYNALENE] = 1
    /\ event_data # EmptyDict
    /\ cfg_last = NoCfg

(***************************************************************************)
(* C34: in the earlier revision the median is computed for the items of    *)
(* data type float and for no other: a boolean item is consumed by         *)
(* get_most_recent_value and reported by the value received last.          *)
(***************************************************************************)
C34_MedianOnlyForFloat ==
    stat_cycle.ran =>
        \A item \in StatItems :
            /\ stat_cycle.method[item] = "compute_recent_median" <=> idl_type(item) = "float"
            /\ idl_type(item) = "boolean" =>
                   /\ stat_cycle.method[item] = "get_most_recent_value"
                   /\ stat_cycle.input[item] # <<>> =>
                          stat_cycle.value[item] = Last(stat_cycle.input[item])
            /\ (idl_type(item) = "float" /\ stat_cycle.input[item] # <<>>) =>
                   stat_cycle.value[item][1] = "half"

\* A cycle received true and then false for the boolean item and reported
\* false, the value received last.
C34_Witness ==
    /\ stat_cycle.ran
    /\ stat_cycle.input["COMANDO_ENCENDIDO"] = <<PyTrue, PyFalse>>
    /\ stat_cycle.value["COMANDO_ENCENDIDO"] = PyFalse
    /\ stat_cycle.data = ("comandoEncendido" :> PyFalse)

\* The median of the two setpoints 1 and 2 is 1.5.
C34_WitnessMedian ==
    /\ stat_cycle.ran
    /\ stat_cycle.input["SETPOINT_ACTIVO"] = <<Num(2), Num(1)>>
    /\ stat_cycle.value["SETPOINT_ACTIVO"] = Half(3)

(***************************************************************************)
(* C35: in the earlier revision a consume clears the accumulator without   *)
(* reseeding: after a cycle every accumulator is empty, an item that was   *)
(* consumed one cycle earlier and got no new sample is consumed as None,   *)
(* and a cycle without a new sample writes no telemetry record.            *)
(***************************************************************************)
C35_ClearWithoutReseed ==
    /\ \A item \in StatItems : stat_state[item].recent_values = <<>>
    /\ stat_cycle.ran =>
           /\ \A item \in StatItems :
                  stat_cycle.input[item] = <<>> =>
                      /\ stat_cycle.value[item] = None
                      /\ TelemetryItemName(item) \notin DOMAIN stat_cycle.data
           /\ stat_cycle.drained = 0 =>
                  /\ \A item \in StatItems : stat_cycle.value[item] = None
                  /\ ~stat_cycle.put

\* Both items were consumed with data one cycle earlier; the last cycle got
\* no message, consumed both as None and wrote no record.
C35_Witness ==
    /\ stat_cycle.ran
    /\ stat_before = StatItems
    /\ stat_cycle.drained = 0
    /\ \A item \in StatItems : stat_cycle.value[item] = None
    /\ ~stat_cycle.put

(***************************************************************************)
(* C36: a publish cycle never fails because the data of a device is        *)
(* incomplete: the telemetry task never ends inside the device loop of     *)
(* _send_telemetry with an exception, so partial device data never puts    *)
(* the CSC in FAULT.                                                       *)
(***************************************************************************)
C36_PartialDataNoFault ==
    ended_at = "send" =>
        /\ last_exc \in {"none", "CancelledError"}
        /\ summary_state # "FAULT"

(***************************************************************************)
(* C37: whenever the CSC is ENABLED, with the hooks of the transition      *)
(* done, the periodic telemetry task is running; so after a FAULT raised   *)
(* by the task the commands standby, start and enable leave the CSC        *)
(* ENABLED with the periodic publishing resumed.                           *)
(***************************************************************************)
C37_EnabledMeansPublishing ==
    (summary_state = "ENABLED" /\ lifecycle = "idle") => TaskRunning

(***************************************************************************)
(* C38: a session in which no message has arrived yet holds nothing of     *)
(* the session before: every accumulator of hvac_state is empty, the       *)
(* event buffers and the configuration snapshots of event_data are empty,  *)
(* and a cycle of it flushes no event and reports no device outside the    *)
(* always enabled set as enabled.                                          *)
(***************************************************************************)
C38_SessionStartsEmpty ==
    (connected /\ arrived = 0 /\ TaskRunning) =>
        /\ \A d \in Devices : \A item \in DOMAIN hvac_state[d] :
               hvac_state[d][item].recent_values = <<>>
        /\ event_data = EmptyDict
        /\ pc \in {"send", "mask", "sleep"} => flushed = {}
        /\ \A d \in Devices \ TOPICS_ALWAYS_ENABLED : reported[d] \in {-1, 0}

C39_WitnessConfig ==
    /\ cmd_last.cmd = "config"
    /\ Len(cmd_last.published) = 1
    /\ ~cmd_last.published[1].ack
    /\ hvac_state[CHILLER_01]["COMANDO_ENCENDIDO"].recent_values = <<PyFalse>>
    /\ event_data # EmptyDict

====
